---- MODULE Spec2Model ----
(***************************************************************************)
(* State-machine model of imessage/native-applescript.mjs: the JSON-RPC    *)
(* server of runRpcServer, its poll engine (pollOnce, startPolling,        *)
(* stopPolling) and its send dispatcher (handleRpcRequest "send",          *)
(* assertSafeOutboundFilePath, sendViaAppleScript).                        *)
(*                                                                         *)
(* Node runs one callback at a time, so every action below is one          *)
(* synchronous stretch of the code: from an event (a request line, a timer *)
(* fire, the completion of an awaited subprocess) up to the next await.    *)
(***************************************************************************)
EXTENDS Integers, Sequences, FiniteSets, Bags

(***************************************************************************)
(* Bounds of the model.                                                    *)
(***************************************************************************)
\* Rows the message store ever holds (ROWIDs 1..NumMsgs).
NumMsgs == 3
\* message.date values are drawn from 1..MaxTs.
MaxTs == 2
\* Poll ticks that may be in flight at once.
MaxTicks == 2
\* Stand-in for the query's LIMIT 500.
QueryLimit == 2
\* Stand-ins for the seen-id set's 2000 / 1500 thresholds.
SeenCap == 2
SeenKeep == 1
\* Send requests that may be in flight at once.
MaxSends == 1
\* Longest target value, in characters of the model.
MaxStr == 3
\* Rows the attachment table ever holds (ROWIDs 1..NumAtts).
NumAtts == 2
\* Messages of the store when the attachment path is explored.
AttachMsgs == 1
\* Messages of the store when the chats of the rows are explored.
GroupMsgs == 2

VARIABLES
  alive,              \* FALSE once process.exit(0) has run
  store,              \* chat.db message table: sequence of rows, ROWID = index
  subscribed,         \* runRpcServer: let subscribed
  includeAttachments, \* runRpcServer: let includeAttachments
  subscriptionId,     \* runRpcServer: let subscriptionId ("null" or "sub")
  pollTimer,          \* runRpcServer: let pollTimer (TRUE = it holds an interval)
  timers,             \* the intervals set and not cleared (0, 1, 2 = more)
  lastMessageTime,    \* runRpcServer: let lastMessageTime (the checkpoint)
  knownMessageIds,    \* runRpcServer: the Set, as its insertion-ordered sequence
  ticks,              \* the bag of pollOnce invocations in flight
  allowArbitrary,     \* isTruthyEnv(OPENCLAW_IMESSAGE_ALLOW_ARBITRARY_FILES)
  sends,              \* handleRpcRequest "send" invocations, by slot (request id)
  wrote,              \* the stdout lines written by the latest step
  req,                \* history: the request line the latest step handled, if any
  emitted,            \* history: message notifications written per id (0, 1, 2 = more)
  evicted,            \* history: ids that were ever cut from knownMessageIds
  attachment,         \* chat.db attachment table, joined: sequence of rows, ROWID = index
  outFiles,           \* attachment ids whose converted .jpg is a non-empty file
  incomplete,         \* those of them whose file is not a transcoder's finished output
  converted,          \* history: attachment ids a call returned a converted path for
  later,              \* history: the calls that started after such a return
  resolved,           \* history: what the tick that emitted last had resolved
  nowAppleNs,         \* runRpcServer: const nowAppleNs (the clock at startup), in seconds
  saved,              \* what the state file held at startup
  stateFile,          \* what the state file holds
  saving              \* the checkpoints of the saveState writes issued and not settled

vars == <<alive, store, subscribed, includeAttachments, subscriptionId, pollTimer,
          timers, lastMessageTime, knownMessageIds, ticks, allowArbitrary, sends, wrote,
          req, emitted, evicted, attachment, outFiles, incomplete, converted, later, resolved,
          nowAppleNs, saved, stateFile, saving>>

\* The subscription's variables, the poll engine's, and the send dispatcher's.
subVars  == <<subscribed, includeAttachments, subscriptionId, pollTimer, timers>>
pollVars == <<lastMessageTime, knownMessageIds, emitted, evicted>>
sendVars == <<allowArbitrary, sends>>
attVars  == <<attachment, outFiles, incomplete, converted, later, resolved>>
startVars == <<nowAppleNs, saved>>
saveVars == <<stateFile, saving>>

\* A line on stdout: a "message" or "error" notification, or the "result" or
\* "rpcerror" response to request id.  val of a message is its is_group.
Line(type, id, val, at) == [type |-> type, id |-> id, val |-> val, at |-> at]

\* A request line with an id, and one whose id is undefined or null.
Req(id, method) == [hasId |-> TRUE, id |-> id, method |-> method]

ReqNoId(method) == [hasId |-> FALSE, id |-> 0, method |-> method]

\* The latest step handled no request line.
NoReq == ReqNoId("-")

\* The latest step handled a request line without id.
HandledNoId(q) == ~q.hasId /\ q.method # "-"

\* The methods of the request lines.
Methods == {"chats.list", "watch.subscribe", "watch.unsubscribe", "send", "other"}

\* A target value or a chat column is a string, modelled as a sequence over Chars: "chat" is
\* the four letters c-h-a-t, "x" any other run of letters, "5" a run of
\* digits, "-" one of ( ) -, and "@", ";", "+", " " themselves.
Chars == {"chat", "x", "@", ";", "+", "5", " ", "-"}

Strings == UNION {[1..n -> Chars] : n \in 0..MaxStr}

\* "+15551234567", "42", "iMessage;+;chat123456", "chat123456".
Phone    == <<"+", "5">>
RowId    == <<"5">>
Guid     == <<"x", ";", "chat">>
ChatName == <<"chat", "5">>

\* String.prototype.trim: leading and trailing white space removed.
RECURSIVE TrimStart(_)
TrimStart(v) == IF v # <<>> /\ Head(v) = " " THEN TrimStart(Tail(v)) ELSE v

RECURSIVE TrimEnd(_)
TrimEnd(v) ==
  IF v # <<>> /\ v[Len(v)] = " " THEN TrimEnd(SubSeq(v, 1, Len(v) - 1)) ELSE v

TrimString(v) == TrimEnd(TrimStart(v))

Includes(v, c) == \E i \in 1..Len(v) : v[i] = c

\* Lines 669-676.
isProbablyGroup(chatIdentifier, displayName) ==
  LET ident == TrimString(chatIdentifier)
      name  == TrimString(displayName)
  IN IF name # <<>> THEN TRUE
     ELSE IF ident = <<>> THEN FALSE
     ELSE IF Head(ident) = "chat" THEN TRUE
     ELSE FALSE

(***************************************************************************)
(* The message store.  A row carries the columns the poll query reads.     *)
(***************************************************************************)
PlainRow ==
  [is_from_me |-> 0, cache_roomnames |-> "NULL", assoc |-> "0", sender |-> "+1555",
   chat_identifier |-> Phone, display_name |-> <<>>]
ReactionRow ==
  [is_from_me |-> 0, cache_roomnames |-> "NULL", assoc |-> "2000", sender |-> "+1555",
   chat_identifier |-> Phone, display_name |-> <<>>]
NoSenderRow ==
  [is_from_me |-> 0, cache_roomnames |-> "NULL", assoc |-> "0", sender |-> " ",
   chat_identifier |-> Phone, display_name |-> <<>>]
FromMeRow ==
  [is_from_me |-> 1, cache_roomnames |-> "NULL", assoc |-> "0", sender |-> "+1555",
   chat_identifier |-> Phone, display_name |-> <<>>]
RowShapes   == {PlainRow, ReactionRow, NoSenderRow, FromMeRow}

\* chat.chat_identifier and chat.display_name of a row's chat: none (no chat
\* joined), a phone number, "chat123456", "iMessage;+;chat123456", " chat";
\* no name, a blank name, a name.
ChatIdents == {<<>>, Phone, ChatName, Guid, <<" ", "chat">>}
ChatNames  == {<<>>, <<" ">>, <<"x">>}

InChat(ident, name) == [PlainRow EXCEPT !.chat_identifier = ident, !.display_name = name]

MsgIds == 1..NumMsgs
Dates  == 1..MaxTs

Range(s) == {s[i] : i \in 1..Len(s)}

Min(a, b) == IF a < b THEN a ELSE b

\* String.prototype.trim on the sender values of the model.
Trim(s) == IF s = " " THEN "" ELSE s

\* WHERE message.date > L AND message.is_from_me = 0 AND message.cache_roomnames IS NULL
QueryMatches(L) ==
  {i \in 1..Len(store) :
     /\ store[i].date > L
     /\ store[i].is_from_me = 0
     /\ store[i].cache_roomnames = "NULL"}

\* ORDER BY message.date ASC LIMIT n: any date-ordered prefix of the matches
\* (the order among equal dates is SQLite's choice).
QueryResults(L) ==
  LET M == QueryMatches(L)
      k == Min(QueryLimit, Cardinality(M))
  IN {r \in [1..k -> M] :
        /\ \A i, j \in 1..k : i < j => r[i] # r[j] /\ store[r[i]].date <= store[r[j]].date
        /\ \A m \in M \ Range(r) : \A i \in 1..k : store[r[i]].date <= store[m].date}

(***************************************************************************)
(* pollOnce, after the query returned: parse, group, sort, emit.           *)
(***************************************************************************)
\* Lines 637-643: the query selects 12 columns with attachments, 9 without.
ColumnCount(qAtt) == IF qAtt THEN 12 ELSE 9

\* Lines 770-771: a line with fewer parts than the CURRENT setting expects is skipped.
TooFewParts(qAtt) == ColumnCount(qAtt) < (IF includeAttachments THEN 12 ELSE 9)

\* Mutant of line 783: reaction rows are not skipped.
SkipReactions_Never(i) == FALSE

\* Line 783: skip reactions/system associated messages.
SkipReactions(i) == store[i].assoc # "" /\ store[i].assoc # "0"

\* Line 784: skip rows without a sender.
SkipNoSender(i) == Trim(store[i].sender) = ""

\* Lines 768-791: the rows the parse loop keeps.
RowKept(i, qAtt) == ~TooFewParts(qAtt) /\ ~SkipReactions(i) /\ ~SkipNoSender(i)

\* Lines 793-811: byId, a Map keyed by message id in first-appearance order.
RECURSIVE ById(_, _)
ById(rows, qAtt) ==
  IF rows = <<>> THEN <<>>
  ELSE LET rest == ById(SubSeq(rows, 1, Len(rows) - 1), qAtt)
           last == rows[Len(rows)]
       IN IF ~RowKept(last, qAtt) \/ last \in Range(rest) THEN rest ELSE Append(rest, last)

\* Lines 849-851: Array.prototype.sort by date_ns_big (stable).
RECURSIVE InsertByDate(_, _)
InsertByDate(sorted, m) ==
  IF sorted = <<>> THEN <<m>>
  ELSE IF store[sorted[Len(sorted)]].date <= store[m].date THEN Append(sorted, m)
  ELSE Append(InsertByDate(SubSeq(sorted, 1, Len(sorted) - 1), m), sorted[Len(sorted)])

RECURSIVE SortByDate(_)
SortByDate(recs) ==
  IF recs = <<>> THEN <<>>
  ELSE InsertByDate(SortByDate(SubSeq(recs, 1, Len(recs) - 1)), recs[Len(recs)])

\* Mutant of line 857: the dedup test never finds the id.
AlreadyKnown_Never(known, id) == FALSE

\* Line 857: the dedup test.
AlreadyKnown(known, id) == id \in Range(known)

\* Mutant of line 863: the head of the set is kept (slice(0, 1500)).
Evict_KeepsOldest(known) ==
  IF Len(known) > SeenCap THEN SubSeq(known, 1, SeenKeep) ELSE known

\* Lines 861-866: keep the tail of the insertion-ordered set.
Evict(known) ==
  IF Len(known) > SeenCap
  THEN SubSeq(known, Len(known) - SeenKeep + 1, Len(known))
  ELSE known

\* Mutant of line 855: the checkpoint takes the record's date without the comparison.
Advance_Unconditional(L, id) == store[id].date

\* Line 855: the checkpoint after a record.
Advance(L, id) == IF store[id].date > L THEN store[id].date ELSE L

\* Lines 683-687 and 695: msg.is_group of the record of message id.
is_group(id) == isProbablyGroup(store[id].chat_identifier, store[id].display_name)

\* Lines 722-733: what reading the state file gives.  "nofile": readFile
\* throws; "badjson": JSON.parse throws; "nofield": state.lastMessageTime is
\* missing or falsy; "notint": BigInt() throws; "value": the integer v.
StateFile(kind, v) == [kind |-> kind, v |-> v]

NoStateFile == StateFile("nofile", 0)

\* Lines 737-741 and 855: saveState is called, and not awaited, at every
\* advance of the loop; each call writes the checkpoint as it is at the call.
\* The checkpoints written by a loop over the sorted records that took the
\* checkpoint from L0 to L1.
Saves(records, L0, L1) == {store[id].date : id \in Range(records)} \cap ((L0 + 1)..L1)

\* Lines 853-870: the emit loop over the sorted records.  The state threaded
\* through it: the checkpoint, the seen-id sequence, the notifications written
\* and the ids cut from the set.
RECURSIVE EmitLoop(_, _)
EmitLoop(recs, st) ==
  IF recs = <<>> THEN st
  ELSE LET id    == Head(recs)
           L1    == Advance(st.L, id)
           added == Append(st.known, id)
           kept  == Evict(added)
       IN IF AlreadyKnown(st.known, id)
          THEN EmitLoop(Tail(recs), [st EXCEPT !.L = L1])
          ELSE EmitLoop(Tail(recs),
                 [L |-> L1,
                  known |-> kept,
                  out |-> Append(st.out, Line("message", id, is_group(id), 0)),
                  cut |-> st.cut \cup (Range(added) \ Range(kept))])

\* Lines 853-870 when the n-th writeJsonLine of the loop throws: the loop ends
\* there, after lines 855-866 ran for that record (lost names it).
RECURSIVE EmitLoopUntil(_, _, _)
EmitLoopUntil(recs, st, n) ==
  IF recs = <<>> THEN st
  ELSE LET id    == Head(recs)
           L1    == Advance(st.L, id)
           added == Append(st.known, id)
           kept  == Evict(added)
           next  == [L |-> L1,
                     known |-> kept,
                     out |-> Append(st.out, Line("message", id, is_group(id), 0)),
                     cut |-> st.cut \cup (Range(added) \ Range(kept)),
                     lost |-> 0]
       IN IF AlreadyKnown(st.known, id)
          THEN EmitLoopUntil(Tail(recs), [st EXCEPT !.L = L1], n)
          ELSE IF Len(st.out) = n - 1
          THEN [next EXCEPT !.out = st.out, !.lost = id]
          ELSE EmitLoopUntil(Tail(recs), next, n)

Inc(n) == IF n < 2 THEN n + 1 ELSE 2

\* A pollOnce invocation suspended at its await of sqlite3 ("query": the
\* subprocess has not read the store yet; "rows": it has, and its output is
\* what the promise will resolve to).
QueryTick(L, att) == [pc |-> "query", qL |-> L, qAtt |-> att, rows |-> <<>>]

RowsTick(t, r) == [pc |-> "rows", qL |-> 0, qAtt |-> t.qAtt, rows |-> r]

InFlight == BagToSet(ticks)

AddTick(t) == ticks (+) SetToBag({t})

DropTick(t) == ticks (-) SetToBag({t})

CanStartTick == BagCardinality(ticks) < MaxTicks

\* Lines 743-755: pollOnce up to its await of the sqlite3 subprocess.  It reads
\* subscribed, lastMessageTime and includeAttachments as they are at the call.
PollOnceStart(isSubscribed, att) ==
  IF ~isSubscribed THEN ticks ELSE AddTick(QueryTick(lastMessageTime, att))

(***************************************************************************)
(* The send dispatcher: the inputs of a send request.                      *)
(***************************************************************************)
\* params.chat_id / chat_guid / chat_identifier / to: the string given, or Null
\* for a field that is absent, undefined or null.
Null == <<"null">>

Params(chat_id, chat_guid, chat_identifier, to) ==
  [chat_id |-> chat_id, chat_guid |-> chat_guid, chat_identifier |-> chat_identifier, to |-> to]

NoTarget == Params(Null, Null, Null, Null)

\* The requests that give at most one target field.
TargetInputs ==
  {NoTarget,
   Params(Null, Null, Null, Phone),
   Params(RowId, Null, Null, Null),
   Params(Null, Guid, Null, Null),
   Params(Null, Null, Phone, Null),
   Params(Null, Null, ChatName, Null)}

\* The requests that give any of the four fields.
MultiTargetInputs ==
  {Params(a, b, c, d) : a \in {Null, RowId, <<>>}, b \in {Null, Guid},
                        c \in {Null, Phone, ChatName}, d \in {Null, Phone}}

\* params.service, lower-cased (anything else than imessage / sms means auto).
ServiceInputs == {"auto", "imessage", "sms"}

\* params.text.
TextInputs == {"", " ", "hi", "<media:image>", " <MEDIA:Image> "}

\* params.file: what the filesystem holds at the path.  lexInside: path.resolve
\* lies under the outbound prefix; dirOk / realOk: realpath of the outbound dir
\* / of the file succeeds; realInside: the file's realpath lies under the real
\* outbound prefix; symlink: lstat says symbolic link; regular: stat says file;
\* oversize: size above a configured OPENCLAW_IMESSAGE_MAX_ATTACHMENT_BYTES.
FileShape(lexInside, dirOk, realOk, realInside, symlink, regular, oversize) ==
  [lexInside |-> lexInside, dirOk |-> dirOk, realOk |-> realOk, realInside |-> realInside,
   symlink |-> symlink, regular |-> regular, oversize |-> oversize]

FileInputs ==
  [InsideOk     |-> FileShape(TRUE,  TRUE,  TRUE,  TRUE,  FALSE, TRUE,  FALSE),
   OutsideLex   |-> FileShape(FALSE, TRUE,  TRUE,  FALSE, FALSE, TRUE,  FALSE),
   ParentEscape |-> FileShape(TRUE,  TRUE,  TRUE,  FALSE, FALSE, TRUE,  FALSE),
   LinkInside   |-> FileShape(TRUE,  TRUE,  TRUE,  TRUE,  TRUE,  TRUE,  FALSE),
   Directory    |-> FileShape(TRUE,  TRUE,  TRUE,  TRUE,  FALSE, FALSE, FALSE),
   TooBig       |-> FileShape(TRUE,  TRUE,  TRUE,  TRUE,  FALSE, TRUE,  TRUE),
   Missing      |-> FileShape(TRUE,  TRUE,  FALSE, FALSE, FALSE, FALSE, FALSE),
   NoOutboundDir |-> FileShape(TRUE, FALSE, FALSE, FALSE, FALSE, FALSE, FALSE)]

FileNames == DOMAIN FileInputs

\* Lines 566-572.
looksLikeChatId(value) ==
  LET v == TrimString(value)
  IN IF v = <<>> THEN FALSE
     ELSE IF Includes(v, ";") THEN TRUE
     ELSE IF Head(v) = "chat" THEN TRUE
     ELSE FALSE

\* Line 579: /^[+0-9][0-9 ()-]*$/.
PhoneRegex(v) ==
  /\ v # <<>>
  /\ v[1] \in {"+", "5"}
  /\ \A i \in 2..Len(v) : v[i] \in {"5", " ", "-"}

\* Lines 574-580.
looksLikeHandle(value) ==
  LET v == TrimString(value)
  IN IF v = <<>> THEN FALSE
     ELSE IF Includes(v, "@") THEN TRUE
     ELSE PhoneRegex(v)

\* String.prototype.trim and toLowerCase on the text values of the model.
TrimText(t) == IF t = " <MEDIA:Image> " THEN "<MEDIA:Image>" ELSE Trim(t)

ToLowerCase(t) == IF t = "<MEDIA:Image>" THEN "<media:image>" ELSE t

\* Lines 584-590: the placeholder strings.
Placeholders ==
  {"<media:image>", "<media:video>", "<media:audio>", "<media:attachment>", "<media:document>"}

\* Lines 582-591.
isOpenclawMediaPlaceholderText(t) == ToLowerCase(TrimText(t)) \in Placeholders

\* What parseSendTarget returns: kind and value, and the field they come from.
Target(kind, field, value) == [kind |-> kind, field |-> field, value |-> value]

\* Mutant of lines 593-599: the four tests in the opposite order.
parseSendTarget_ToFirst(params) ==
  IF params.to # Null THEN Target("handle", "to", params.to)
  ELSE IF params.chat_identifier # Null
  THEN Target("chat_identifier", "chat_identifier", params.chat_identifier)
  ELSE IF params.chat_guid # Null THEN Target("chat_guid", "chat_guid", params.chat_guid)
  ELSE IF params.chat_id # Null THEN Target("chat_id", "chat_id", params.chat_id)
  ELSE Target("null", "none", <<>>)

\* Lines 593-599.
parseSendTarget(params) ==
  IF params.chat_id # Null THEN Target("chat_id", "chat_id", params.chat_id)
  ELSE IF params.chat_guid # Null THEN Target("chat_guid", "chat_guid", params.chat_guid)
  ELSE IF params.chat_identifier # Null
  THEN Target("chat_identifier", "chat_identifier", params.chat_identifier)
  ELSE IF params.to # Null THEN Target("handle", "to", params.to)
  ELSE Target("null", "none", <<>>)

\* Mutant of lines 374-392: the file found inside is not examined further.
assertSafeOutboundFilePath_NoFileTests(f) ==
  IF allowArbitrary THEN "ok"
  ELSE IF ~FileInputs[f].lexInside THEN "Refusing to send attachment outside OpenClaw outbound dir"
  ELSE IF ~FileInputs[f].dirOk THEN "Outbound dir not accessible"
  ELSE IF ~FileInputs[f].realOk THEN "Attachment not accessible"
  ELSE IF ~FileInputs[f].realInside
       THEN "Refusing to send attachment outside OpenClaw outbound dir (realpath)"
  ELSE "ok"

\* Mutant of lines 367-372: the containment test after realpath is missing.
assertSafeOutboundFilePath_NoRealpath(f) ==
  IF allowArbitrary THEN "ok"
  ELSE IF ~FileInputs[f].lexInside THEN "Refusing to send attachment outside OpenClaw outbound dir"
  ELSE IF ~FileInputs[f].dirOk THEN "Outbound dir not accessible"
  ELSE IF ~FileInputs[f].realOk THEN "Attachment not accessible"
  ELSE IF FileInputs[f].symlink THEN "Refusing to send symlink attachment"
  ELSE IF ~FileInputs[f].regular THEN "Refusing to send non-file attachment"
  ELSE IF FileInputs[f].oversize THEN "Refusing to send attachment larger than"
  ELSE "ok"

\* Lines 329-393: "ok" or the message of the Error thrown.
assertSafeOutboundFilePath(f) ==
  IF allowArbitrary THEN "ok"
  ELSE IF ~FileInputs[f].lexInside THEN "Refusing to send attachment outside OpenClaw outbound dir"
  ELSE IF ~FileInputs[f].dirOk THEN "Outbound dir not accessible"
  ELSE IF ~FileInputs[f].realOk THEN "Attachment not accessible"
  ELSE IF ~FileInputs[f].realInside
       THEN "Refusing to send attachment outside OpenClaw outbound dir (realpath)"
  ELSE IF FileInputs[f].symlink THEN "Refusing to send symlink attachment"
  ELSE IF ~FileInputs[f].regular THEN "Refusing to send non-file attachment"
  ELSE IF FileInputs[f].oversize THEN "Refusing to send attachment larger than"
  ELSE "ok"

\* assertSafeOutboundFilePath settles before its first filesystem await
\* (lines 330-348) when the escape hatch is set or the lexical test fails.
AssertNeedsIo(f) == ~allowArbitrary /\ FileInputs[f].lexInside

\* Lines 476-481.
servicePref(service) ==
  IF service = "imessage" THEN <<"iMessage">>
  ELSE IF service = "sms" THEN <<"SMS">>
  ELSE <<"iMessage", "SMS">>

\* Lines 500-563: the ladder of osascript attempts for a handle target.
Attempt(strategy, svc) == [strategy |-> strategy, svc |-> svc]

\* Mutant of lines 500-546: the direct-buddy loop runs before the new-chat loop.
Ladder_BuddyFirst(service) ==
  [i \in 1..Len(servicePref(service)) |-> Attempt("buddy", servicePref(service)[i])]
  \o [i \in 1..Len(servicePref(service)) |-> Attempt("newchat", servicePref(service)[i])]
  \o <<Attempt("generic", "none")>>

Ladder(service) ==
  LET P == servicePref(service)
  IN [i \in 1..Len(P) |-> Attempt("newchat", P[i])]
     \o [i \in 1..Len(P) |-> Attempt("buddy", P[i])]
     \o <<Attempt("generic", "none")>>

\* Lines 484-498: a chat target gets one attempt.
ChatLadder == <<Attempt("chat", "none")>>

\* Mutant of lines 484-498: a chat target is tried service by service too.
LadderOf_AlwaysServices(snd) == Ladder(snd.service)

LadderOf(snd) == IF snd.kind = "handle" THEN Ladder(snd.service) ELSE ChatLadder

(***************************************************************************)
(* The environment: the store is appended to by Messages.app.              *)
(***************************************************************************)
StoreInsert(d, shape) ==
  /\ alive
  /\ Len(store) < NumMsgs
  /\ store' = Append(store, [date |-> d, is_from_me |-> shape.is_from_me,
                             cache_roomnames |-> shape.cache_roomnames,
                             assoc |-> shape.assoc, sender |-> shape.sender,
                             chat_identifier |-> shape.chat_identifier,
                             display_name |-> shape.display_name])
  /\ wrote' = <<>>
  /\ req' = NoReq
  /\ UNCHANGED <<saveVars, startVars, attVars, alive, subVars, pollVars, ticks, sendVars>>

(***************************************************************************)
(* The attachment table and the files of the attachments.  A row carries   *)
(* the message it is joined to, the columns the poll query reads           *)
(* (filename, mime_type), the number of join rows that link it (a          *)
(* duplicate join row gives 2) and what the filesystem holds at its path.  *)
(* A filename is a sequence of tokens: "~" or "/" first, the extension     *)
(* last.                                                                   *)
(***************************************************************************)
HeicAtt  == [filename |-> <<"~", "Library", "IMG", ".heic">>, mime_type |-> "image/heic", present |-> TRUE]
HeicGone == [filename |-> <<"~", "Library", "IMG", ".heic">>, mime_type |-> "image/heic", present |-> FALSE]
PngAtt   == [filename |-> <<"/", "abs", "pic", ".png">>,      mime_type |-> " ",          present |-> TRUE]
BareAtt  == [filename |-> <<"/", "abs", "blob", "">>,         mime_type |-> "",           present |-> TRUE]
NoFile   == [filename |-> <<>>,                               mime_type |-> "",           present |-> FALSE]
AttachShapes == {HeicAtt, HeicGone, PngAtt, BareAtt, NoFile}

AttIds == 1..NumAtts

\* The attachment id as the query prints it.
IdStr(a) == <<"1", "2", "3">>[a]

\* Lines 87-112: file:// and ~ expanded, trimmed; "" for an empty filename.
normalizeAttachmentPath(p) ==
  IF p = <<>> THEN <<>>
  ELSE IF Head(p) = "~" THEN <<"/", "Users", "me">> \o Tail(p)
  ELSE p

\* Lines 134-174: the MIME type of the path's extension ("none": undefined).
inferMimeTypeFromPath(filePath) ==
  LET ext == filePath[Len(filePath)]
  IN IF ext = ".heic" THEN "image/heic"
     ELSE IF ext = ".heif" THEN "image/heif"
     ELSE IF ext = ".png" THEN "image/png"
     ELSE "none"

\* Lines 178-182.
normalizeMimeType(mimeType, filePath) ==
  IF Trim(mimeType) # "" THEN Trim(mimeType) ELSE inferMimeTypeFromPath(filePath)

\* Lines 230-243 and 196-228: what sniffing the file's first bytes can give.
SniffOutcomes(a) ==
  IF attachment[a].present THEN {"image/heif", "image/jpeg", "none"} ELSE {"none"}

\* Lines 267-269: the deterministic output path of an attachment id.
OutPath(attachmentId) == <<"/", "state", "media", "inbox", "converted-", IdStr(attachmentId), ".jpg">>

\* An entry of msg.attachments (lines 839-844).
AttachmentRecord(a, path, mime, missing) ==
  [attachment_id |-> a, original_path |-> path, mime_type |-> mime, missing |-> missing]

\* A call of maybeConvertHeicToJpeg that returned: its attachment id, whether
\* a call for that id had returned a converted path before it started, the
\* transcoders it invoked and what it returned (<<>>: null).
Call(a, late, runs, ret) == [a |-> a, late |-> late, runs |-> runs, ret |-> ret]

\* What a tick resolved: the message ids of its records, the <<message id,
\* attachment id>> rows whose path did not exist, and those whose transcoding
\* strategies all failed.
NoneResolved == [ids |-> {}, gone |-> {}, nulls |-> {}]

\* Messages.app stores an attachment of message m.
AttachmentInsert(m, shape, copies) ==
  /\ alive
  /\ Len(attachment) < NumAtts
  /\ m \in 1..Len(store)
  /\ attachment' = Append(attachment, [msg |-> m, filename |-> shape.filename,
                                       mime_type |-> shape.mime_type,
                                       present |-> shape.present, copies |-> copies])
  /\ wrote' = <<>>
  /\ req' = NoReq
  /\ UNCHANGED <<saveVars, startVars, outFiles, incomplete, converted, later, resolved, alive, store, subVars, pollVars,
               ticks, sendVars>>

\* The rows of the query with the attachment joins (lines 637-649): one per
\* join row of a matching message, one with NULLs (a = 0) for a message
\* without attachment.
JoinRows(L) ==
  {[m |-> attachment[a].msg, a |-> a, c |-> c] :
     a \in {b \in 1..Len(attachment) : attachment[b].msg \in QueryMatches(L)}, c \in 1..2}
  \cup {[m |-> m, a |-> 0, c |-> 1] :
          m \in {i \in QueryMatches(L) : \A b \in 1..Len(attachment) : attachment[b].msg # i}}

JoinRowsOf(L) == {j \in JoinRows(L) : j.a = 0 \/ j.c <= attachment[j.a].copies}

\* Lines 651-653: ORDER BY message.date ASC, attachment.ROWID ASC (NULL first).
JoinOrdered(j1, j2) ==
  \/ store[j1.m].date < store[j2.m].date
  \/ store[j1.m].date = store[j2.m].date /\ j1.a <= j2.a

\* LIMIT n: any ordered prefix of the join rows, as <<message id, attachment id>>.
JoinResults(L) ==
  LET J == JoinRowsOf(L)
      k == Min(QueryLimit, Cardinality(J))
  IN {[i \in 1..k |-> <<r[i].m, r[i].a>>] :
        r \in {q \in [1..k -> J] :
                 /\ \A i, j \in 1..k : i < j => q[i] # q[j] /\ JoinOrdered(q[i], q[j])
                 /\ \A o \in J \ Range(q) : \A i \in 1..k : JoinOrdered(q[i], o)}}

(***************************************************************************)
(* The poll engine.                                                        *)
(***************************************************************************)
\* Lines 875-879: the interval fires and calls pollOnce.
TimerFire ==
  /\ alive
  /\ timers > 0
  /\ CanStartTick
  /\ ticks' = PollOnceStart(subscribed, includeAttachments)
  /\ wrote' = <<>>
  /\ req' = NoReq
  /\ UNCHANGED <<saveVars, startVars, attVars, alive, store, subVars, pollVars, sendVars>>

\* The sqlite3 subprocess reads the store: the result is fixed here, the
\* callback runs later (QueryReturn has no effect on the server's variables).
\* This is the query without the attachment joins (lines 651-653, 637-643).
QueryReturn(t, r) ==
  /\ alive
  /\ t \in InFlight
  /\ t.pc = "query"
  /\ ~t.qAtt
  /\ r \in QueryResults(t.qL)
  /\ ticks' = DropTick(t) (+) SetToBag({RowsTick(t, r)})
  /\ wrote' = <<>>
  /\ req' = NoReq
  /\ UNCHANGED <<saveVars, startVars, attVars, alive, store, subVars, pollVars, sendVars>>

\* Mutant of lines 756-760: a failed query also resets the checkpoint.
QueryFail_ResetsCheckpoint(t) ==
  /\ alive
  /\ t \in InFlight
  /\ t.pc = "query"
  /\ ticks' = DropTick(t)
  /\ wrote' = <<Line("error", 0, "-", 0)>>
  /\ req' = NoReq
  /\ lastMessageTime' = 0
  /\ UNCHANGED <<saveVars, startVars, attVars, alive, store, subVars, knownMessageIds, emitted, evicted, sendVars>>

\* Lines 756-760: the query failed or timed out.
QueryFail(t) ==
  /\ alive
  /\ t \in InFlight
  /\ t.pc = "query"
  /\ ticks' = DropTick(t)
  /\ wrote' = <<Line("error", 0, "-", 0)>>
  /\ req' = NoReq
  /\ UNCHANGED <<saveVars, startVars, attVars, alive, store, subVars, pollVars, sendVars>>

\* Lines 762-870: the rest of pollOnce, run when the query's promise resolves.
TickResult(records) ==
  EmitLoop(records,
           [L |-> lastMessageTime, known |-> knownMessageIds, out |-> <<>>, cut |-> {}])

\* Mutant of lines 1008-1021: the handlers stop the timer and do not exit, so
\* the continuation of a tick in flight still runs.
TickFinish_AfterExit(t) ==
  /\ t \in InFlight
  /\ t.pc = "rows"
  /\ \E byId \in {ById(t.rows, t.qAtt)} : \E records \in {SortByDate(byId)} :
     \E res \in {TickResult(records)} :
        /\ lastMessageTime' = res.L
        /\ knownMessageIds' = res.known
        /\ wrote' = res.out
        /\ emitted' = [i \in MsgIds |->
                         IF \E k \in 1..Len(res.out) : res.out[k].id = i
                         THEN Inc(emitted[i]) ELSE emitted[i]]
        /\ evicted' = evicted \cup res.cut
        /\ saving' = saving \cup Saves(records, lastMessageTime, res.L)
  /\ req' = NoReq
  /\ ticks' = DropTick(t)
  /\ UNCHANGED <<stateFile, startVars, attVars, alive, store, subVars, sendVars>>

TickFinish(t) ==
  /\ alive
  /\ t \in InFlight
  /\ t.pc = "rows"
  /\ \E byId \in {ById(t.rows, t.qAtt)} : \E records \in {SortByDate(byId)} :
     \E res \in {TickResult(records)} :
        /\ lastMessageTime' = res.L
        /\ knownMessageIds' = res.known
        /\ wrote' = res.out
        /\ req' = NoReq
        /\ emitted' = [i \in MsgIds |->
                         IF \E k \in 1..Len(res.out) : res.out[k].id = i
                         THEN Inc(emitted[i]) ELSE emitted[i]]
        /\ evicted' = evicted \cup res.cut
        /\ saving' = saving \cup Saves(records, lastMessageTime, res.L)
  /\ ticks' = DropTick(t)
  /\ UNCHANGED <<stateFile, startVars, attVars, alive, store, subVars, sendVars>>

\* Lines 853-870 and 876-882: process.stdout.write throws at the n-th
\* notification of the loop; pollOnce rejects and the catch of startPolling
\* writes an error notification, or that write throws too and the rejection,
\* unhandled, ends the process.
TickWriteFails(t, n, reported) ==
  /\ alive
  /\ t \in InFlight
  /\ t.pc = "rows"
  /\ \E byId \in {ById(t.rows, t.qAtt)} : \E records \in {SortByDate(byId)} :
     \E res \in {EmitLoopUntil(records,
                    [L |-> lastMessageTime, known |-> knownMessageIds, out |-> <<>>,
                     cut |-> {}, lost |-> 0], n)} :
        /\ res.lost # 0
        /\ lastMessageTime' = res.L
        /\ knownMessageIds' = res.known
        /\ wrote' = IF reported THEN Append(res.out, Line("error", 0, "-", 0)) ELSE res.out
        /\ req' = NoReq
        /\ emitted' = [i \in MsgIds |->
                         IF \E k \in 1..Len(res.out) : res.out[k].id = i
                         THEN Inc(emitted[i]) ELSE emitted[i]]
        /\ evicted' = evicted \cup res.cut
        /\ saving' = saving \cup Saves(records, lastMessageTime, res.L)
  /\ alive' = reported
  /\ ticks' = DropTick(t)
  /\ UNCHANGED <<stateFile, startVars, attVars, store, subVars, sendVars>>

\* Lines 737-741: a writeFile of saveState settles, the file then holding its
\* checkpoint.  Writes issued without awaiting one another settle in any order.
WriteLands(v) ==
  /\ alive
  /\ v \in saving
  /\ stateFile' = StateFile("value", v)
  /\ saving' = saving \ {v}
  /\ wrote' = <<>>
  /\ req' = NoReq
  /\ UNCHANGED <<startVars, attVars, alive, store, subVars, pollVars, ticks, sendVars>>

(***************************************************************************)
(* pollOnce with the attachment joins.  The parse loop (lines 768-847)     *)
(* awaits inside the attachment branch, so a tick is suspended per row at: *)
(* "access" (fs.access, line 821), "sniff" (sniffMimeTypeFromFilePath,     *)
(* line 827), and inside maybeConvertHeicToJpeg at "stat" (the cache       *)
(* probe, line 272), "mkdir" (line 279), "exec" (the k-th transcoder) and  *)
(* "check" (the fs.stat after it).  rows holds the rows still to parse,    *)
(* the one being resolved first; ids and atts are byId (the message ids in *)
(* first-appearance order and each record's attachments); cur is the       *)
(* attachment being resolved; did is history, what it has resolved so far. *)
(***************************************************************************)
NoCur == [missing |-> FALSE, mime |-> "none", late |-> FALSE, runs |-> 0, k |-> 0]

JoinTick(r) ==
  [pc |-> "joined", qL |-> 0, qAtt |-> TRUE, rows |-> r, ids |-> <<>>,
   atts |-> [i \in MsgIds |-> <<>>], cur |-> NoCur, did |-> NoneResolved]

\* The three strategies of lines 285-312: sips, convert-heic.sh, magick.
Strategies == <<"sips", "convert-heic.sh", "magick">>

\* The row being resolved.
CurMsg(t) == Head(t.rows)[1]
CurAtt(t) == Head(t.rows)[2]
CurPath(t) == normalizeAttachmentPath(attachment[CurAtt(t)].filename)

\* Lines 768-818: the parse loop from the first row of t.rows up to its next
\* await (pc "access") or to its end (pc "emit").  A row of 12 parts is never
\* too short (line 771), whatever includeAttachments is by now.
RECURSIVE ParseLoop(_)
ParseLoop(t) ==
  IF t.rows = <<>> THEN [t EXCEPT !.pc = "emit"]
  ELSE LET m  == Head(t.rows)[1]
           a  == Head(t.rows)[2]
           t1 == IF m \in Range(t.ids) THEN t ELSE [t EXCEPT !.ids = Append(@, m)]
       IN IF SkipReactions(m) \/ SkipNoSender(m)
          THEN ParseLoop([t EXCEPT !.rows = Tail(@)])
          ELSE IF includeAttachments /\ a # 0
                  /\ normalizeAttachmentPath(attachment[a].filename) # <<>>
          THEN [t1 EXCEPT !.pc = "access"]
          ELSE ParseLoop([t1 EXCEPT !.rows = Tail(@)])

\* Mutant of line 839: the entry is put in front of the record's attachments.
PushAttachment_Unshift(t, path, mime) ==
  ParseLoop([t EXCEPT !.atts[CurMsg(t)] =
                        <<AttachmentRecord(CurAtt(t), path, mime, t.cur.missing)>> \o @,
                      !.rows = Tail(@),
                      !.cur = NoCur])

\* Lines 839-846: push the resolved attachment and go on with the next row.
PushAttachment(t, path, mime) ==
  ParseLoop([t EXCEPT !.atts[CurMsg(t)] =
                        Append(@, AttachmentRecord(CurAtt(t), path, mime, t.cur.missing)),
                      !.rows = Tail(@),
                      !.cur = NoCur])

\* What a step of a tick leaves: the tick and the calls that returned in it.
Out(t, returned) == [t |-> t, calls |-> returned]

\* Lines 833-836: maybeConvertHeicToJpeg returned a converted path.
ReturnConverted(t) ==
  Out(PushAttachment(t, OutPath(CurAtt(t)), "image/jpeg"),
      {Call(CurAtt(t), t.cur.late, t.cur.runs, OutPath(CurAtt(t)))})

\* History: the row's maybeConvertHeicToJpeg call returned null.
NoteNull(t) == [t EXCEPT !.did.nulls = @ \cup {Head(t.rows)}]

\* Mutant of lines 833-836: the result is used without the test for null.
ReturnNull_AsConverted(t) ==
  Out(PushAttachment(NoteNull(t), OutPath(CurAtt(t)), "image/jpeg"),
      {Call(CurAtt(t), t.cur.late, t.cur.runs, <<>>)})

\* Lines 314 and 829-844: it returned null; path and MIME type stay.
ReturnNull(t) ==
  Out(PushAttachment(NoteNull(t), CurPath(t), t.cur.mime),
      {Call(CurAtt(t), t.cur.late, t.cur.runs, <<>>)})

\* Lines 285-312: launch the k-th transcoder.
Launch(t, k) == Out([t EXCEPT !.pc = "exec", !.cur.k = k, !.cur.runs = @ + 1], {})

\* A strategy failed: the next one, or null after the last.
NextStrategy(t) ==
  IF t.cur.k < Len(Strategies) THEN Launch(t, t.cur.k + 1) ELSE ReturnNull(t)

\* Lines 829-832 and 263-272: with the MIME type known, a HEIC / HEIF file
\* goes to maybeConvertHeicToJpeg, which awaits the stat of the output path.
AfterMime(t, mime) ==
  IF mime \in {"image/heic", "image/heif"}
  THEN Out([t EXCEPT !.pc = "stat", !.cur.mime = mime,
                     !.cur.late = (CurAtt(t) \in converted)], {})
  ELSE Out(PushAttachment(t, CurPath(t), mime), {})

\* Lines 678-708 and 869: the notification of a record, with msg.attachments
\* when includeAttachments is set.
buildMessageObject(line, atts) ==
  IF includeAttachments
  THEN [type |-> line.type, id |-> line.id, val |-> line.val, at |-> line.at,
        attachments |-> atts[line.id]]
  ELSE line

\* One step of a tick on the attachment path: the tick is suspended again, or
\* its parse loop ended and lines 849-870 sort and emit.
TickStep(t, o) ==
  /\ alive
  /\ t \in InFlight
  /\ converted' = converted \cup {c.a : c \in {d \in o.calls : d.ret # <<>>}}
  /\ later' = later \cup {c \in o.calls : c.late}
  /\ req' = NoReq
  /\ IF o.t.pc # "emit"
     THEN /\ ticks' = DropTick(t) (+) SetToBag({o.t})
          /\ wrote' = <<>>
          /\ resolved' = NoneResolved
          /\ UNCHANGED <<pollVars, saving>>
     ELSE \E records \in {SortByDate(o.t.ids)} : \E res \in {TickResult(records)} :
            /\ ticks' = DropTick(t)
            /\ lastMessageTime' = res.L
            /\ knownMessageIds' = res.known
            /\ wrote' = [k \in 1..Len(res.out) |-> buildMessageObject(res.out[k], o.t.atts)]
            /\ emitted' = [i \in MsgIds |->
                             IF \E k \in 1..Len(res.out) : res.out[k].id = i
                             THEN Inc(emitted[i]) ELSE emitted[i]]
            /\ evicted' = evicted \cup res.cut
            /\ saving' = saving \cup Saves(records, lastMessageTime, res.L)
            /\ resolved' = [o.t.did EXCEPT !.ids = Range(o.t.ids)]
  /\ UNCHANGED <<stateFile, startVars, attachment, alive, store, subVars, sendVars>>

\* The sqlite3 subprocess of a query with the attachment joins reads the store.
JoinReturn(t, r) ==
  /\ alive
  /\ t \in InFlight
  /\ t.pc = "query"
  /\ t.qAtt
  /\ r \in JoinResults(t.qL)
  /\ ticks' = DropTick(t) (+) SetToBag({JoinTick(r)})
  /\ wrote' = <<>>
  /\ req' = NoReq
  /\ UNCHANGED <<saveVars, startVars, attVars, alive, store, subVars, pollVars, sendVars>>

\* Lines 762-821: the query's promise resolved; parse up to the first await.
TickParse(t) ==
  /\ t.pc = "joined"
  /\ TickStep(t, Out(ParseLoop(t), {}))
  /\ UNCHANGED <<outFiles, incomplete>>

\* Mutant of lines 819-824: a row whose path does not exist is skipped.
AccessDone_SkipsMissing(t) ==
  /\ t.pc = "access"
  /\ \E missing \in {~attachment[CurAtt(t)].present} :
     \E mime \in {normalizeMimeType(attachment[CurAtt(t)].mime_type, CurPath(t))} :
     \E t1 \in {[t EXCEPT !.cur.missing = missing,
                           !.did.gone = IF missing THEN @ \cup {Head(t.rows)} ELSE @]} :
       TickStep(t, IF missing THEN Out(ParseLoop([t1 EXCEPT !.rows = Tail(@), !.cur = NoCur]), {})
                   ELSE IF mime = "none" THEN Out([t1 EXCEPT !.pc = "sniff"], {})
                   ELSE AfterMime(t1, mime))
  /\ UNCHANGED <<outFiles, incomplete>>

\* Lines 819-827: fs.access settled.  The path is missing on ENOENT.
AccessDone(t) ==
  /\ t.pc = "access"
  /\ \E missing \in {~attachment[CurAtt(t)].present} :
     \E mime \in {normalizeMimeType(attachment[CurAtt(t)].mime_type, CurPath(t))} :
     \E t1 \in {[t EXCEPT !.cur.missing = missing,
                           !.did.gone = IF missing THEN @ \cup {Head(t.rows)} ELSE @]} :
       TickStep(t, IF mime = "none" THEN Out([t1 EXCEPT !.pc = "sniff"], {})
                   ELSE AfterMime(t1, mime))
  /\ UNCHANGED <<outFiles, incomplete>>

\* Line 827: the sniff settled.
SniffDone(t, sniffed) ==
  /\ t.pc = "sniff"
  /\ sniffed \in SniffOutcomes(CurAtt(t))
  /\ TickStep(t, AfterMime(t, sniffed))
  /\ UNCHANGED <<outFiles, incomplete>>

\* Mutant of lines 271-276: the output path is not probed before transcoding.
StatDone_NoCache(t) ==
  /\ t.pc = "stat"
  /\ TickStep(t, Out([t EXCEPT !.pc = "mkdir"], {}))
  /\ UNCHANGED <<outFiles, incomplete>>

\* Lines 271-279: the stat of the output path settled: a non-empty file there
\* is returned, otherwise the inbox directory is made.
StatDone(t) ==
  /\ t.pc = "stat"
  /\ TickStep(t, IF CurAtt(t) \in outFiles THEN ReturnConverted(t)
                 ELSE Out([t EXCEPT !.pc = "mkdir"], {}))
  /\ UNCHANGED <<outFiles, incomplete>>

\* Lines 279-286: mkdir settled (its failure is ignored); sips is launched.
MkdirDone(t) ==
  /\ t.pc = "mkdir"
  /\ TickStep(t, Launch(t, 1))
  /\ UNCHANGED <<outFiles, incomplete>>

\* The k-th transcoder exited: "wrote" (exit 0, a non-empty output file),
\* "empty" (exit 0 without one, nothing having been written) or "failed"
\* (non-zero exit or timeout, the output path left as it was).  After exit 0 the code awaits fs.stat.
ExecOutcomes == {"wrote", "empty", "failed"}

ExecDone(t, outcome) ==
  /\ t.pc = "exec"
  /\ outcome \in ExecOutcomes
  /\ outcome = "empty" => CurAtt(t) \notin incomplete
  /\ outFiles' = IF outcome = "wrote" THEN outFiles \cup {CurAtt(t)} ELSE outFiles
  /\ incomplete' = IF outcome = "wrote" THEN incomplete \ {CurAtt(t)} ELSE incomplete
  /\ TickStep(t, IF outcome = "failed" THEN NextStrategy(t)
                 ELSE Out([t EXCEPT !.pc = "check"], {}))

\* Lines 286, 298 and 307: the running transcoder has begun to write the
\* output path and is not done: the file there is non-empty and unfinished.
\* It stays so if the transcoder then fails or is killed by the 30 s timeout.
ExecWrites(t) ==
  /\ alive
  /\ t \in InFlight
  /\ t.pc = "exec"
  /\ CurAtt(t) \notin incomplete
  /\ outFiles' = outFiles \cup {CurAtt(t)}
  /\ incomplete' = incomplete \cup {CurAtt(t)}
  /\ wrote' = <<>>
  /\ req' = NoReq
  /\ UNCHANGED <<saveVars, startVars, attachment, converted, later, resolved, alive, store, subVars,
                 pollVars, ticks, sendVars>>

\* Lines 287-288 (299-300, 308-309): the stat after a transcoder settled.
CheckDone(t) ==
  /\ t.pc = "check"
  /\ TickStep(t, IF CurAtt(t) \in outFiles THEN ReturnConverted(t) ELSE NextStrategy(t))
  /\ UNCHANGED <<outFiles, incomplete>>

(***************************************************************************)
(* The protocol front-end: requests handled without an await.              *)
(***************************************************************************)
\* Lines 873-883: startPolling arms the interval and polls at once, unless armed.
StartPollingTicks(att) == IF pollTimer THEN ticks ELSE PollOnceStart(TRUE, att)

\* Mutant of line 874: startPolling sets an interval whether or not one is held.
StartPollingTimers_NoGuard == Inc(timers)

\* Lines 874-879: startPolling sets a new interval unless pollTimer holds one.
StartPollingTimers == IF pollTimer THEN timers ELSE Inc(timers)

\* Lines 885-888: stopPolling clears the interval pollTimer holds.
StopPollingTimers == IF pollTimer THEN timers - 1 ELSE timers

\* Mutant of lines 904-912: a subscription starts from an empty seen-id set.
WatchSubscribe_ResetsSeen(id, att) ==
  /\ alive
  /\ pollTimer \/ CanStartTick
  /\ includeAttachments' = att
  /\ subscribed' = TRUE
  /\ subscriptionId' = "sub"
  /\ pollTimer' = TRUE
  /\ timers' = StartPollingTimers
  /\ ticks' = StartPollingTicks(att)
  /\ wrote' = <<Line("result", id, "subscription", 0)>>
  /\ req' = Req(id, "watch.subscribe")
  /\ knownMessageIds' = <<>>
  /\ UNCHANGED <<saveVars, startVars, attVars, alive, store, lastMessageTime, emitted, evicted, sendVars>>

\* Lines 904-912.
WatchSubscribe(id, att) ==
  /\ alive
  /\ pollTimer \/ CanStartTick
  /\ includeAttachments' = att
  /\ subscribed' = TRUE
  /\ subscriptionId' = "sub"
  /\ pollTimer' = TRUE
  /\ timers' = StartPollingTimers
  /\ ticks' = StartPollingTicks(att)
  /\ wrote' = <<Line("result", id, "subscription", 0)>>
  /\ req' = Req(id, "watch.subscribe")
  /\ UNCHANGED <<saveVars, startVars, attVars, alive, store, pollVars, sendVars>>

\* Lines 914-919 and 885-888.
WatchUnsubscribe(id) ==
  /\ alive
  /\ subscribed' = FALSE
  /\ pollTimer' = FALSE
  /\ timers' = StopPollingTimers
  /\ wrote' = <<Line("result", id, "ok", 0)>>
  /\ req' = Req(id, "watch.unsubscribe")
  /\ UNCHANGED <<saveVars, startVars, attVars, alive, store, includeAttachments, subscriptionId, pollVars, ticks, sendVars>>

\* Lines 899-902.
ChatsList(id) ==
  /\ alive
  /\ wrote' = <<Line("result", id, "chats", 0)>>
  /\ req' = Req(id, "chats.list")
  /\ UNCHANGED <<saveVars, startVars, attVars, alive, store, subVars, pollVars, ticks, sendVars>>

\* Lines 983-985.
UnknownMethod(id) ==
  /\ alive
  /\ wrote' = <<Line("rpcerror", id, "Method not found", 0)>>
  /\ req' = Req(id, "other")
  /\ UNCHANGED <<saveVars, startVars, attVars, alive, store, subVars, pollVars, ticks, sendVars>>

\* Mutant of line 895: a request without id is dispatched all the same.
NoIdRequest_Dispatches(method) ==
  /\ alive
  /\ wrote' = <<>>
  /\ req' = ReqNoId(method)
  /\ subscribed' = (subscribed \/ method = "watch.subscribe")
  /\ UNCHANGED <<saveVars, startVars, attVars, alive, store, includeAttachments, subscriptionId, pollTimer, timers,
                 pollVars, ticks, sendVars>>

\* Line 895: a request whose id is undefined or null, whatever its method.
NoIdRequest(method) ==
  /\ alive
  /\ wrote' = <<>>
  /\ req' = ReqNoId(method)
  /\ UNCHANGED <<saveVars, startVars, attVars, alive, store, subVars, pollVars, ticks, sendVars>>

\* Lines 1008-1021: stdin closed, or SIGTERM / SIGINT: process.exit(0).
Shutdown ==
  /\ alive
  /\ alive' = FALSE
  /\ subscribed' = FALSE
  /\ pollTimer' = FALSE
  /\ timers' = 0
  /\ wrote' = <<>>
  /\ req' = NoReq
  /\ UNCHANGED <<saveVars, startVars, attVars, store, includeAttachments, subscriptionId, pollVars, ticks, sendVars>>

(***************************************************************************)
(* The send dispatcher: handleRpcRequest "send" (lines 921-981).           *)
(* A slot of sends is one request; its id is the slot's index.  pc is the  *)
(* await the handler is suspended at: "assert" (the filesystem calls of    *)
(* assertSafeOutboundFilePath), "lookup" (sqlite3 of                       *)
(* lookupChatTargetsFromRowId), "stage" (stageAttachmentForMessages),      *)
(* "osa" (the k-th osascript of sendViaAppleScript).  log, copies, nOk and *)
(* nErr are history: the attempts made, the staging copies made and the    *)
(* result / error responses written for the request; asked is params.text  *)
(* as the request gave it.                                                 *)
(***************************************************************************)
\* History of a send: lookupChatTargetsFromRowId was not called.  fileNow is
\* what the request's path holds ("checked": what assertSafeOutboundFilePath
\* examined; "outsideLink": a symlink to a file outside the outbound
\* directory), handed what it held when the staging copy read it.
NoLookup == [row |-> FALSE, guid |-> <<"-">>, chat_identifier |-> <<"-">>]

FreeSend ==
  [pc |-> "free", field |-> "-", kind |-> "-", value |-> <<>>, mapped |-> NoLookup,
   service |-> "-", asked |-> "", text |-> "",
   file |-> "none", path |-> "none", k |-> 0, lastErr |-> 0, log |-> <<>>,
   copies |-> 0, nOk |-> 0, nErr |-> 0, err |-> "-", at |-> 0,
   fileNow |-> "checked", handed |-> "-", params |-> NoTarget]

SendSlots == 1..MaxSends

\* Lines 987-989: an Error thrown in the handler is written as the error response.
\* at names the osascript attempt whose failure it is (0: none).
Throw(snd, msg, at) ==
  [snd EXCEPT !.pc = "done", !.nErr = Inc(@), !.err = msg, !.at = at]

\* Line 979.
WriteOk(snd) == [snd EXCEPT !.pc = "done", !.nOk = Inc(@)]

\* Line 972 and lines 466-520: sendViaAppleScript starts its first osascript.
StartAttempts(snd) ==
  [snd EXCEPT !.pc = "osa", !.kind = IF snd.kind = "handle" THEN "handle" ELSE "chat",
              !.k = 1]

\* Lines 963-968: stage the file, if any.
AfterLookup(snd) ==
  IF snd.file # "none" THEN [snd EXCEPT !.pc = "stage"] ELSE StartAttempts(snd)

\* Lines 941-961: reclassify a handle-like chat_identifier; look a numeric chat_id up.
Reclassify_NoChatIdTest(snd) ==
  IF snd.kind = "chat_identifier" /\ looksLikeHandle(snd.value)
  THEN [snd EXCEPT !.kind = "handle"] ELSE snd

Reclassify(snd) ==
  IF snd.kind = "chat_identifier" /\ looksLikeHandle(snd.value) /\ ~looksLikeChatId(snd.value)
  THEN [snd EXCEPT !.kind = "handle"] ELSE snd

\* Line 951: /^\d+$/.
IsDigits(v) == v # <<>> /\ \A i \in 1..Len(v) : v[i] = "5"

AfterAssert(snd) ==
  LET c == Reclassify(snd)
  IN IF c.kind = "chat_id" /\ IsDigits(c.value) THEN [c EXCEPT !.pc = "lookup"]
     ELSE AfterLookup(c)

\* Mutant of lines 935-937: the placeholder text is sent as it is.
HandleSend_KeepsPlaceholder(tin, service, text, f) ==
  LET target == parseSendTarget(tin)
      snd    == [FreeSend EXCEPT !.field = target.field, !.params = tin,
                                 !.kind = target.kind, !.value = target.value,
                                 !.service = service, !.asked = text,
                                 !.text = text, !.file = f]
  IN IF target.kind = "null"
     THEN Throw(snd, "Missing required parameter: to|chat_id|chat_guid|chat_identifier", 0)
     ELSE IF TrimText(text) = "" /\ f = "none"
     THEN Throw(snd, "Missing required parameter: text or file", 0)
     ELSE IF f = "none" THEN AfterAssert(snd)
     ELSE IF AssertNeedsIo(f) THEN [snd EXCEPT !.pc = "assert"]
     ELSE IF assertSafeOutboundFilePath(f) # "ok"
     THEN Throw(snd, assertSafeOutboundFilePath(f), 0)
     ELSE AfterAssert(snd)

\* Mutant of line 929: the text is tested without trim.
HandleSend_NoTrim(tin, service, text, f) ==
  LET target == parseSendTarget(tin)
      text1  == IF f # "none" /\ isOpenclawMediaPlaceholderText(text) THEN "" ELSE text
      snd    == [FreeSend EXCEPT !.field = target.field, !.params = tin,
                                 !.kind = target.kind, !.value = target.value,
                                 !.service = service, !.asked = text,
                                 !.text = text1, !.file = f]
  IN IF target.kind = "null"
     THEN Throw(snd, "Missing required parameter: to|chat_id|chat_guid|chat_identifier", 0)
     ELSE IF text = "" /\ f = "none"
     THEN Throw(snd, "Missing required parameter: text or file", 0)
     ELSE IF f = "none" THEN AfterAssert(snd)
     ELSE IF AssertNeedsIo(f) THEN [snd EXCEPT !.pc = "assert"]
     ELSE IF assertSafeOutboundFilePath(f) # "ok"
     THEN Throw(snd, assertSafeOutboundFilePath(f), 0)
     ELSE AfterAssert(snd)

\* Lines 922-939: the handler up to the await of assertSafeOutboundFilePath.
\* normalizeAttachmentPath gives "" for no file.  The record of a request
\* that throws keeps the request's fields.
HandleSend(tin, service, text, f) ==
  LET target == parseSendTarget(tin)
      text1  == IF f # "none" /\ isOpenclawMediaPlaceholderText(text) THEN "" ELSE text
      snd    == [FreeSend EXCEPT !.field = target.field, !.params = tin,
                                 !.kind = target.kind, !.value = target.value,
                                 !.service = service, !.asked = text,
                                 !.text = text1, !.file = f]
  IN IF target.kind = "null"
     THEN Throw(snd, "Missing required parameter: to|chat_id|chat_guid|chat_identifier", 0)
     ELSE IF TrimText(text) = "" /\ f = "none"
     THEN Throw(snd, "Missing required parameter: text or file", 0)
     ELSE IF f = "none" THEN AfterAssert(snd)
     ELSE IF AssertNeedsIo(f) THEN [snd EXCEPT !.pc = "assert"]
     ELSE IF assertSafeOutboundFilePath(f) # "ok"
     THEN Throw(snd, assertSafeOutboundFilePath(f), 0)
     ELSE AfterAssert(snd)

\* The response line a step wrote for request r, if it completed the request.
ResponseLines(r, snd) ==
  IF snd.pc # "done" THEN <<>>
  ELSE IF snd.nOk > 0 THEN <<Line("result", r, "ok", 0)>>
  ELSE <<Line("rpcerror", r, snd.err, snd.at)>>

SendStep(r, snd) ==
  /\ sends' = [sends EXCEPT ![r] = snd]
  /\ wrote' = ResponseLines(r, snd)
  /\ req' = IF sends[r].pc = "free" THEN Req(r, "send") ELSE NoReq
  /\ UNCHANGED <<saveVars, startVars, attVars, alive, store, subVars, pollVars, ticks, allowArbitrary>>

SendRequest(r, tin, service, text, f) ==
  /\ alive
  /\ sends[r].pc = "free"
  /\ SendStep(r, HandleSend(tin, service, text, f))

\* The client has read the response and may reuse the id.
Release(r) ==
  /\ alive
  /\ sends[r].pc = "done"
  /\ sends' = [sends EXCEPT ![r] = FreeSend]
  /\ wrote' = <<>>
  /\ req' = NoReq
  /\ UNCHANGED <<saveVars, startVars, attVars, alive, store, subVars, pollVars, ticks, allowArbitrary>>

\* Lines 350-393 have run: assertSafeOutboundFilePath returns or throws.
AssertDone(r) ==
  /\ alive
  /\ sends[r].pc = "assert"
  /\ LET verdict == assertSafeOutboundFilePath(sends[r].file)
     IN SendStep(r, IF verdict = "ok" THEN AfterAssert(sends[r])
                    ELSE Throw(sends[r], verdict, 0))

\* Lines 601-615: what lookupChatTargetsFromRowId resolves to: null (no row,
\* or the sqlite3 call failed and .catch gave null), or the row's guid and
\* chat_identifier, each trimmed and null (here <<>>) when empty.
LookupRow(guid, ident) == [row |-> TRUE, guid |-> guid, chat_identifier |-> ident]

LookupNull == [row |-> FALSE, guid |-> <<>>, chat_identifier |-> <<>>]

LookupOutcomes ==
  {LookupNull}
  \cup {LookupRow(g, c) : g \in {<<>>, Guid, <<"x">>}, c \in {<<>>, Phone, ChatName}}

\* Mutant of lines 952-961: the kind is switched and the value is left alone.
ApplyLookup_KeepsValue(snd, mapped) ==
  IF mapped.row /\ mapped.guid # <<>> /\ looksLikeChatId(mapped.guid)
  THEN [snd EXCEPT !.kind = "chat_guid", !.mapped = mapped]
  ELSE IF mapped.row /\ mapped.chat_identifier # <<>>
  THEN [snd EXCEPT !.mapped = mapped,
                   !.kind = IF looksLikeHandle(mapped.chat_identifier)
                               /\ ~looksLikeChatId(mapped.chat_identifier)
                            THEN "handle" ELSE "chat_identifier"]
  ELSE [snd EXCEPT !.mapped = mapped]

\* Lines 952-961.
ApplyLookup(snd, mapped) ==
  IF mapped.row /\ mapped.guid # <<>> /\ looksLikeChatId(mapped.guid)
  THEN [snd EXCEPT !.kind = "chat_guid", !.value = mapped.guid, !.mapped = mapped]
  ELSE IF mapped.row /\ mapped.chat_identifier # <<>>
  THEN [snd EXCEPT !.value = mapped.chat_identifier, !.mapped = mapped,
                   !.kind = IF looksLikeHandle(mapped.chat_identifier)
                               /\ ~looksLikeChatId(mapped.chat_identifier)
                            THEN "handle" ELSE "chat_identifier"]
  ELSE [snd EXCEPT !.mapped = mapped]

LookupDone(r, mapped) ==
  /\ alive
  /\ sends[r].pc = "lookup"
  /\ SendStep(r, AfterLookup(ApplyLookup(sends[r], mapped)))

\* Lines 395-438 and 963-968: the copy into the staging directory succeeded
\* (the staged path is sent) or failed (the original path is sent).
Copyable(f) == FileInputs[f].realOk /\ FileInputs[f].regular

StageDone(r, copied) ==
  /\ alive
  /\ sends[r].pc = "stage"
  /\ copied => Copyable(sends[r].file)
  /\ SendStep(r, StartAttempts([sends[r] EXCEPT
                   !.path = IF copied THEN "staged" ELSE "original",
                   !.copies = IF copied THEN Inc(@) ELSE @,
                   !.handed = IF copied THEN sends[r].fileNow ELSE @]))

\* Between the awaits of lines 939-968 another process replaces the file at
\* the request's path by a symlink to a file outside the outbound directory.
FileReplaced(r) ==
  /\ alive
  /\ sends[r].pc \in {"lookup", "stage"}
  /\ sends[r].file # "none"
  /\ sends[r].fileNow = "checked"
  /\ sends' = [sends EXCEPT ![r].fileNow = "outsideLink"]
  /\ wrote' = <<>>
  /\ req' = NoReq
  /\ UNCHANGED <<saveVars, startVars, attVars, alive, store, subVars, pollVars, ticks, allowArbitrary>>

\* Lines 488-495 (and 511-518, 533-539, 552-557): the send steps pushed onto
\* the script, in the order they are pushed.
ScriptSteps(text, path) ==
  (IF text # "" THEN <<"text">> ELSE <<>>) \o (IF path # "none" THEN <<"file">> ELSE <<>>)

\* Line 562: the error thrown when the last attempt of the ladder failed too.
SurfacedError(lastErr, k) == IF lastErr # 0 THEN lastErr ELSE k

\* Mutant of lines 519-525: a success does not return while lastErr is set.
AfterAttempt_KeepsLastErr(snd, ok) ==
  LET ladder == LadderOf(snd)
      made   == [strategy |-> ladder[snd.k].strategy, svc |-> ladder[snd.k].svc,
                 sendsText |-> snd.text # "", sendsFile |-> snd.path # "none",
                 steps |-> ScriptSteps(snd.text, snd.path), ok |-> ok,
                 ran |-> IF ok THEN Len(ScriptSteps(snd.text, snd.path)) ELSE 0]
      logged == [snd EXCEPT !.log = Append(@, made)]
  IN IF ok /\ snd.lastErr = 0 THEN WriteOk(logged)
     ELSE IF ok THEN Throw(logged, "osascript", snd.lastErr)
     ELSE IF snd.kind # "handle" THEN Throw(logged, "osascript", snd.k)
     ELSE IF snd.k < Len(ladder) THEN [logged EXCEPT !.lastErr = snd.k, !.k = snd.k + 1]
     ELSE Throw(logged, "osascript", SurfacedError(snd.lastErr, snd.k))

\* Lines 519-525, 540-546, 559-563 (handle) and 496-497 (chat): the k-th
\* osascript ended.  The script's steps are logged with the attempt, and how
\* many of them Messages.app had run when it ended (ran): all on success;
\* on failure any number, the script failing at a later statement or the
\* timeout killing osascript after them.
AfterAttemptRan(snd, ok, ran) ==
  LET ladder == LadderOf(snd)
      made   == [strategy |-> ladder[snd.k].strategy, svc |-> ladder[snd.k].svc,
                 sendsText |-> snd.text # "", sendsFile |-> snd.path # "none",
                 steps |-> ScriptSteps(snd.text, snd.path), ok |-> ok, ran |-> ran]
      logged == [snd EXCEPT !.log = Append(@, made)]
  IN IF ok THEN WriteOk(logged)
     ELSE IF snd.kind # "handle" THEN Throw(logged, "osascript", snd.k)
     ELSE IF snd.k < Len(ladder) THEN [logged EXCEPT !.lastErr = snd.k, !.k = snd.k + 1]
     ELSE Throw(logged, "osascript", SurfacedError(snd.lastErr, snd.k))

\* The k-th osascript succeeded, or failed before its first send step.
AfterAttempt(snd, ok) ==
  AfterAttemptRan(snd, ok, IF ok THEN Len(ScriptSteps(snd.text, snd.path)) ELSE 0)

AttemptDone(r, ok) ==
  /\ alive
  /\ sends[r].pc = "osa"
  /\ SendStep(r, AfterAttempt(sends[r], ok))

\* The k-th osascript failed or timed out after n of its send steps had run.
AttemptFailsAfter(r, n) ==
  /\ alive
  /\ sends[r].pc = "osa"
  /\ n \in 1..Len(ScriptSteps(sends[r].text, sends[r].path))
  /\ SendStep(r, AfterAttemptRan(sends[r], FALSE, n))

\* Inputs of the requests.
Texts == TextInputs
Files == FileNames \cup {"none"}

(***************************************************************************)
(* The specifications.  The poll engine and the send dispatcher share no   *)
(* variable (the dispatcher reads and writes sends and allowArbitrary      *)
(* only), so each is also explored on its own: PollSpec runs the           *)
(* subscription and the poll engine, SendSpec the request handlers that    *)
(* do not touch the subscription.                                          *)
(***************************************************************************)
(***************************************************************************)
(* Startup (lines 719-735).  Times are Apple-epoch seconds (the code's      *)
(* nanoseconds divided by NS_PER_S).                                        *)
(***************************************************************************)
\* Line 721: 1800n * NS_PER_S, the default lookback.
LookbackS == 1800
\* Line 728: 86400n * NS_PER_S, the staleness window.
StaleS == 86400

\* The clock at startup: before 2001, 2001-01-01 00:00:00, 00:29:59, 00:30:00,
\* 00:30:01, one day later, and later.
NowInputs == {0 - 5, 0, 1799, 1800, 1801, 86400, 100000}

StateFiles(now) ==
  {StateFile(k, 0) : k \in {"nofile", "badjson", "nofield", "notint"}}
  \cup {StateFile("value", v) :
          v \in {now - StaleS - 1, now - StaleS, now - StaleS + 1, now - LookbackS,
                 now - 1, now, now + 1}}

\* Mutant of line 728: a saved value is not required to lie before now.
StartupCheckpoint_NoFutureTest(now, file) ==
  LET restored == IF file.kind = "value" /\ file.v > now - StaleS
                  THEN file.v ELSE now - LookbackS
  IN IF restored < 0 THEN 0 ELSE restored

\* Lines 721-734: lastMessageTime when runRpcServer has read the state file.
StartupCheckpoint(now, file) ==
  LET restored == IF file.kind = "value" /\ file.v > now - StaleS /\ file.v < now
                  THEN file.v ELSE now - LookbackS
  IN IF restored < 0 THEN 0 ELSE restored

\* Lines 712-735: runRpcServer's variables when it starts serving.
InitAt(now, file) ==
  /\ nowAppleNs = now
  /\ saved = file
  /\ stateFile = file
  /\ saving = {}
  /\ alive = TRUE
  /\ store = <<>>
  /\ subscribed = FALSE
  /\ includeAttachments = FALSE
  /\ subscriptionId = "null"
  /\ pollTimer = FALSE
  /\ timers = 0
  /\ lastMessageTime = StartupCheckpoint(now, file)
  /\ knownMessageIds = <<>>
  /\ ticks = EmptyBag
  /\ allowArbitrary \in BOOLEAN
  /\ sends = [r \in SendSlots |-> FreeSend]
  /\ wrote = <<>>
  /\ req = NoReq
  /\ emitted = [i \in MsgIds |-> 0]
  /\ evicted = {}
  /\ attachment = <<>>
  /\ outFiles = {}
  /\ incomplete = {}
  /\ converted = {}
  /\ later = {}
  /\ resolved = NoneResolved

\* The server started half an hour into the Apple epoch with no state file:
\* the checkpoint is 0, below every date of the store.
Init == InitAt(LookbackS, NoStateFile)

\* The server started at any of the clock values, on any state file.
StartupInit ==
  /\ \E now \in NowInputs : \E file \in StateFiles(now) : InitAt(now, file)
  /\ ~allowArbitrary

\* The attachment path reads nothing of the send dispatcher: the escape hatch
\* is left unset there.
AttachInit == Init /\ ~allowArbitrary

PollNext ==
  \/ \E d \in Dates, shape \in RowShapes : StoreInsert(d, shape)
  \/ \E id \in {0}, att \in {FALSE} : WatchSubscribe(id, att)
  \/ \E id \in {0} : WatchUnsubscribe(id)
  \/ TimerFire
  \/ \E t \in InFlight : \E r \in QueryResults(t.qL) : QueryReturn(t, r)
  \/ \E t \in InFlight : QueryFail(t)
  \/ \E t \in InFlight : TickFinish(t)
  \/ \E method \in {"watch.subscribe", "send"} : NoIdRequest(method)
  \/ Shutdown

SendNext ==
  \/ \E r \in SendSlots, tin \in TargetInputs, service \in ServiceInputs,
        text \in Texts, f \in Files : SendRequest(r, tin, service, text, f)
  \/ \E r \in SendSlots : AssertDone(r)
  \/ \E r \in SendSlots, mapped \in LookupOutcomes : LookupDone(r, mapped)
  \/ \E r \in SendSlots, copied \in BOOLEAN : StageDone(r, copied)
  \/ \E r \in SendSlots, ok \in BOOLEAN : AttemptDone(r, ok)
  \/ \E r \in SendSlots : Release(r)
  \/ \E id \in {0} : ChatsList(id)
  \/ \E id \in {0} : UnknownMethod(id)
  \/ \E method \in Methods : NoIdRequest(method)
  \/ Shutdown

\* The poll engine with attachments: the subscription (attachments on or
\* off), a store of AttachMsgs messages and its attachment table (a duplicate
\* join row on the HEIC attachment), and the ticks of both queries.
AttachNext ==
  \/ Len(store) < AttachMsgs /\ \E d \in {1}, shape \in {PlainRow} : StoreInsert(d, shape)
  \/ \E m \in MsgIds, shape \in AttachShapes :
       \E copies \in 1..(IF shape = HeicAtt THEN 2 ELSE 1) : AttachmentInsert(m, shape, copies)
  \/ \E id \in {0}, att \in BOOLEAN : WatchSubscribe(id, att)
  \/ TimerFire
  \/ \E t \in InFlight : \E r \in QueryResults(t.qL) : QueryReturn(t, r)
  \/ \E t \in InFlight : \E r \in JoinResults(t.qL) : JoinReturn(t, r)
  \/ \E t \in InFlight : TickFinish(t)
  \/ \E t \in InFlight : TickParse(t)
  \/ \E t \in InFlight : AccessDone(t)
  \/ \E t \in InFlight, sniffed \in {"image/heif", "none"} : SniffDone(t, sniffed)
  \/ \E t \in InFlight : StatDone(t)
  \/ \E t \in InFlight : MkdirDone(t)
  \/ \E t \in InFlight, outcome \in ExecOutcomes : ExecDone(t, outcome)
  \/ \E t \in InFlight : CheckDone(t)

Next ==
  \/ PollNext
  \/ SendNext
  \/ AttachNext

\* The poll engine with the subscription kept active (no unsubscribe, no
\* shutdown).  The interval keeps firing while armed (lines 875-879), the
\* continuation of a resolved query is run by the event loop, and store
\* queries succeed again and again.
PollLiveNext ==
  \/ \E d \in Dates, shape \in RowShapes : StoreInsert(d, shape)
  \/ \E id \in {0}, att \in {FALSE} : WatchSubscribe(id, att)
  \/ TimerFire
  \/ \E t \in InFlight : \E r \in QueryResults(t.qL) : QueryReturn(t, r)
  \/ \E t \in InFlight : QueryFail(t)
  \/ \E t \in InFlight : TickFinish(t)

\* Every value a suspended tick can have.
QueryTicks == {QueryTick(L, FALSE) : L \in 0..MaxTs}

RowsTicks ==
  {RowsTick(QueryTick(0, FALSE), r) :
     r \in UNION {[1..k -> MsgIds] : k \in 0..QueryLimit}}

PollFairness ==
  /\ WF_vars(TimerFire)
  /\ \A t \in RowsTicks : WF_vars(TickFinish(t))
  /\ \A t \in QueryTicks :
       WF_vars(QueryFail(t) \/ \E r \in QueryResults(t.qL) : QueryReturn(t, r))
  /\ SF_vars(\E t \in InFlight : \E r \in QueryResults(t.qL) : QueryReturn(t, r))

\* The send dispatcher on chat_identifier targets of every value, one attempt
\* ladder per request.
ClassifyNext ==
  \/ \E r \in SendSlots, v \in Strings :
       SendRequest(r, Params(Null, Null, v, Null), "imessage", "hi", "none")
  \/ \E r \in SendSlots, ok \in BOOLEAN : AttemptDone(r, ok)
  \/ \E r \in SendSlots : Release(r)

\* The poll engine on messages of chats of every kind.
GroupNext ==
  \/ Len(store) < GroupMsgs
       /\ \E d \in {1}, ident \in ChatIdents, name \in ChatNames : StoreInsert(d, InChat(ident, name))
  \/ \E id \in {0}, att \in {FALSE} : WatchSubscribe(id, att)
  \/ TimerFire
  \/ \E t \in InFlight : \E r \in QueryResults(t.qL) : QueryReturn(t, r)
  \/ \E t \in InFlight : TickFinish(t)

\* The poll engine on a standard output whose writes can throw.
WriteFailNext ==
  \/ \E d \in Dates, shape \in {PlainRow} : StoreInsert(d, shape)
  \/ \E id \in {0}, att \in {FALSE} : WatchSubscribe(id, att)
  \/ TimerFire
  \/ \E t \in InFlight : \E r \in QueryResults(t.qL) : QueryReturn(t, r)
  \/ \E t \in InFlight : TickFinish(t)
  \/ \E t \in InFlight, n \in 1..QueryLimit, reported \in BOOLEAN : TickWriteFails(t, n, reported)

\* The poll engine after a startup of any kind.
StartupNext ==
  \/ Len(store) < GroupMsgs /\ \E d \in Dates, shape \in {PlainRow} : StoreInsert(d, shape)
  \/ \E id \in {0}, att \in {FALSE} : WatchSubscribe(id, att)
  \/ TimerFire
  \/ \E t \in InFlight : \E r \in QueryResults(t.qL) : QueryReturn(t, r)
  \/ \E t \in InFlight : TickFinish(t)

\* The request handlers and the poll engine side by side: a send to a handle,
\* with or without a file, runs while ticks are in flight.
FrameNext ==
  \/ Len(store) < GroupMsgs /\ \E d \in Dates, shape \in {PlainRow} : StoreInsert(d, shape)
  \/ \E id \in {0}, att \in {FALSE} : WatchSubscribe(id, att)
  \/ \E id \in {0} : WatchUnsubscribe(id)
  \/ \E id \in {0} : ChatsList(id)
  \/ TimerFire
  \/ \E t \in InFlight : \E r \in QueryResults(t.qL) : QueryReturn(t, r)
  \/ \E t \in InFlight : QueryFail(t)
  \/ \E t \in InFlight : TickFinish(t)
  \/ \E r \in SendSlots, f \in {"none", "InsideOk"} :
       SendRequest(r, Params(Null, Null, Null, Phone), "imessage", "hi", f)
  \/ \E r \in SendSlots : AssertDone(r)
  \/ \E r \in SendSlots, copied \in BOOLEAN : StageDone(r, copied)
  \/ \E r \in SendSlots, ok \in BOOLEAN : AttemptDone(r, ok)
  \/ \E r \in SendSlots : Release(r)

\* Sends to a handle whose osascript runs can fail at any statement.
PartialNext ==
  \/ \E r \in SendSlots, service \in ServiceInputs, f \in {"none", "InsideOk"} :
       SendRequest(r, Params(Null, Null, Null, Phone), service, "hi", f)
  \/ \E r \in SendSlots : AssertDone(r)
  \/ \E r \in SendSlots, copied \in BOOLEAN : StageDone(r, copied)
  \/ \E r \in SendSlots, ok \in BOOLEAN : AttemptDone(r, ok)
  \/ \E r \in SendSlots, n \in 1..2 : AttemptFailsAfter(r, n)
  \/ \E r \in SendSlots : Release(r)

\* HEIC transcoding with the output file's content followed: a transcoder
\* writes the output path while it runs.
ConvertNext ==
  \/ Len(store) < AttachMsgs /\ \E d \in {1}, shape \in {PlainRow} : StoreInsert(d, shape)
  \/ \E m \in MsgIds, copies \in 1..2 : AttachmentInsert(m, HeicAtt, copies)
  \/ \E id \in {0}, att \in {TRUE} : WatchSubscribe(id, att)
  \/ TimerFire
  \/ \E t \in InFlight : \E r \in JoinResults(t.qL) : JoinReturn(t, r)
  \/ \E t \in InFlight : TickParse(t)
  \/ \E t \in InFlight : AccessDone(t)
  \/ \E t \in InFlight : StatDone(t)
  \/ \E t \in InFlight : MkdirDone(t)
  \/ \E t \in InFlight : ExecWrites(t)
  \/ \E t \in InFlight, outcome \in ExecOutcomes : ExecDone(t, outcome)
  \/ \E t \in InFlight : CheckDone(t)

\* The Messages app adds a message whose date is not lower than any in the store.
StoreAppend(d, shape) ==
  /\ \A i \in 1..Len(store) : store[i].date <= d
  /\ StoreInsert(d, shape)

\* The poll engine over a store that grows in date order.
OrderNext ==
  \/ \E d \in Dates, shape \in {PlainRow} : StoreAppend(d, shape)
  \/ \E id \in {0}, att \in {FALSE} : WatchSubscribe(id, att)
  \/ TimerFire
  \/ \E t \in InFlight : \E r \in QueryResults(t.qL) : QueryReturn(t, r)
  \/ \E t \in InFlight : TickFinish(t)

\* The send dispatcher with a file, over a filesystem that other processes write.
StageNext ==
  \/ \E r \in SendSlots, tin \in TargetInputs, service \in {"auto"},
        text \in {"", "hi"}, f \in FileNames : SendRequest(r, tin, service, text, f)
  \/ \E r \in SendSlots : AssertDone(r)
  \/ \E r \in SendSlots, mapped \in {LookupNull} : LookupDone(r, mapped)
  \/ \E r \in SendSlots : FileReplaced(r)
  \/ \E r \in SendSlots, copied \in BOOLEAN : StageDone(r, copied)
  \/ \E r \in SendSlots, ok \in BOOLEAN : AttemptDone(r, ok)
  \/ \E r \in SendSlots : Release(r)

\* The send dispatcher over requests that give several target fields.
TargetNext ==
  \/ \E r \in SendSlots, tin \in MultiTargetInputs, service \in {"auto"},
        text \in {"hi"}, f \in {"none"} : SendRequest(r, tin, service, text, f)
  \/ \E r \in SendSlots, mapped \in {LookupNull, LookupRow(Guid, <<>>)} : LookupDone(r, mapped)
  \/ \E r \in SendSlots, ok \in BOOLEAN : AttemptDone(r, ok)
  \/ \E r \in SendSlots : Release(r)

\* The poll engine and the state file.
SaveNext ==
  \/ \E d \in Dates, shape \in {PlainRow} : StoreInsert(d, shape)
  \/ \E id \in {0}, att \in {FALSE} : WatchSubscribe(id, att)
  \/ TimerFire
  \/ \E t \in InFlight : \E r \in QueryResults(t.qL) : QueryReturn(t, r)
  \/ \E t \in InFlight : TickFinish(t)
  \/ \E v \in Dates : WriteLands(v)

PollSpec == Init /\ [][PollNext]_vars
SaveSpec == Init /\ [][SaveNext]_vars
OrderSpec == Init /\ [][OrderNext]_vars
StageSpec == Init /\ [][StageNext]_vars
TargetSpec == Init /\ [][TargetNext]_vars
ConvertSpec == AttachInit /\ [][ConvertNext]_vars
PartialSpec == Init /\ [][PartialNext]_vars
FrameSpec == Init /\ [][FrameNext]_vars
StartupSpec == StartupInit /\ [][StartupNext]_vars
WriteFailSpec == Init /\ [][WriteFailNext]_vars
GroupSpec == Init /\ [][GroupNext]_vars
AttachSpec == AttachInit /\ [][AttachNext]_vars
ClassifySpec == Init /\ [][ClassifyNext]_vars
PollLiveSpec == Init /\ [][PollLiveNext]_vars /\ PollFairness
SendSpec == Init /\ [][SendNext]_vars
Spec     == Init /\ [][Next]_vars

(***************************************************************************)
(* Claims about the poll engine (checked under PollSpec).                  *)
(***************************************************************************)
InStore(i) == i \in 1..Len(store)

\* C1: over any sequence of poll ticks, overlapping ones included, the message
\* notification of an identity is written at most once for as long as the
\* identity has not been evicted from the seen-id set.
C1_DedupAtMostOnce == \A i \in MsgIds : i \notin evicted => emitted[i] <= 1

\* C1's case: an identity was emitted once and is still in the seen-id set,
\* while an overlapping tick (its query was issued before the emission moved
\* the checkpoint) holds a row of the same identity.
C1_Witness ==
  \E i \in MsgIds :
    /\ emitted[i] = 1
    /\ i \notin evicted
    /\ AlreadyKnown(knownMessageIds, i)
    /\ \E t \in InFlight : t.pc = "rows" /\ i \in Range(t.rows)

\* The largest of L and the dates of the rows a query returned.
MaxDate(rows, L) ==
  LET D == {L} \cup {store[rows[k]].date : k \in 1..Len(rows)}
  IN CHOOSE m \in D : \A d \in D : m >= d

\* A step in which tick t's continuation after a successful query ran.
TickCompletes(t) == t.pc = "rows" /\ ticks' = DropTick(t)

\* A step in which tick t's query failed.
TickFails(t) == t.pc = "query" /\ ticks' = DropTick(t)

\* C2: after any tick whose query succeeded, the checkpoint is the maximum of
\* its value before the tick and the timestamp of every row the query
\* returned, whether the row was emitted, suppressed as a duplicate or
\* discarded.
C2_CheckpointIsMaxOfRows ==
  [][\A t \in InFlight :
       TickCompletes(t) => lastMessageTime' = MaxDate(t.rows, lastMessageTime)]_vars

\* C3: while the subscription stays active and store queries eventually
\* succeed, every store message that is not self-authored, has associated
\* type 0, has a non-empty sender and a timestamp greater than the checkpoint
\* is eventually emitted as a message notification, whatever other rows the
\* store holds.
C3_Pending(i) ==
  /\ subscribed
  /\ InStore(i)
  /\ store[i].is_from_me = 0
  /\ store[i].cache_roomnames = "NULL"
  /\ store[i].assoc = "0"
  /\ store[i].sender \notin {"", " "}
  /\ store[i].date > lastMessageTime

C3_EventuallyEmitted == \A i \in MsgIds : C3_Pending(i) ~> (emitted[i] >= 1)

\* C9: a store row whose associated-type marker is non-zero, or whose sender
\* is empty or blank, never produces a message notification, in any tick,
\* seen before or not.
C9_Discarded(i) == store[i].assoc \notin {"", "0"} \/ store[i].sender \in {"", " "}

C9_DiscardedNeverEmitted ==
  \A i \in MsgIds : InStore(i) /\ C9_Discarded(i) => emitted[i] = 0

\* C9's case: the store holds a discarded row dated before a plain message and
\* nothing else, and the plain message was emitted; the checkpoint was below
\* both until then, so the query that returned the message returned the
\* discarded row, never seen before, ahead of it.
C9_Witness ==
  /\ Len(store) = 2
  /\ C9_Discarded(1)
  /\ store[1].is_from_me = 0
  /\ store[1].date < store[2].date
  /\ emitted[2] = 1
  /\ emitted[1] = 0
  /\ 1 \notin Range(knownMessageIds)

\* C10: when a tick's store query fails, exactly one error notification is
\* written, the checkpoint and the seen-id set are left unchanged, the timer
\* stays as armed as it was, and a tick started afterwards queries with the
\* checkpoint as it stands (the failed tick left it alone).
C10_QueryFailureIsIgnored ==
  [][/\ \A t \in InFlight :
          TickFails(t) =>
            /\ wrote' = <<Line("error", 0, "-", 0)>>
            /\ UNCHANGED <<lastMessageTime, knownMessageIds, pollTimer, subscribed>>
     /\ BagCardinality(ticks') > BagCardinality(ticks) =>
          \E n \in BagToSet(ticks') :
            n.pc = "query" /\ n.qL = lastMessageTime' /\ ticks' = AddTick(n)]_vars

\* C10's case: a query has just failed with the timer armed, after earlier
\* ticks had moved the checkpoint and filled the seen-id set.
C10_Witness ==
  /\ wrote = <<Line("error", 0, "-", 0)>>
  /\ pollTimer
  /\ subscribed
  /\ lastMessageTime > 0
  /\ knownMessageIds # <<>>

(***************************************************************************)
(* Claims about the send dispatcher (checked under SendSpec).              *)
(***************************************************************************)
Responses(r) == sends[r].nOk + sends[r].nErr

AllFailed(log) == log # <<>> /\ \A n \in 1..Len(log) : ~log[n].ok

\* C4: every request with a non-null id gets exactly one response line with
\* that id, never zero and never two, send requests still awaiting a
\* subprocess when the input stream closes included.
C4_ExactlyOneResponse ==
  \A r \in SendSlots :
    /\ Responses(r) <= 1
    /\ sends[r].pc = "done" => Responses(r) = 1
    /\ ~alive /\ sends[r].pc # "free" => Responses(r) = 1

\* C5: with the escape hatch unset, a send request whose file lies outside
\* the outbound directory, lexically or after symlink resolution, is answered
\* with an error and with nothing else; no staging copy and no osascript
\* attempt is made for it.
C5_Outside(f) ==
  /\ f # "none"
  /\ \/ ~FileInputs[f].lexInside
     \/ FileInputs[f].dirOk /\ FileInputs[f].realOk /\ ~FileInputs[f].realInside

C5_Containment ==
  \A r \in SendSlots :
    ~allowArbitrary /\ C5_Outside(sends[r].file) =>
      /\ sends[r].pc \in {"assert", "done"}
      /\ sends[r].pc = "done" => sends[r].nErr = 1
      /\ sends[r].nOk = 0
      /\ sends[r].copies = 0
      /\ sends[r].log = <<>>

\* C5's case: a valid request for a handle whose file is lexically inside
\* the outbound directory and resolves outside it was answered with the
\* realpath refusal.
C5_Witness ==
  \E r \in SendSlots :
    /\ ~allowArbitrary
    /\ sends[r].file = "ParentEscape"
    /\ sends[r].kind = "handle"
    /\ sends[r].pc = "done"
    /\ sends[r].nErr = 1
    /\ sends[r].err = "Refusing to send attachment outside OpenClaw outbound dir (realpath)"

\* C6: when every attempt of a handle-target send failed, the error surfaced
\* to the caller is that of the chronologically last attempt made.
C6_LastAttemptSurfaced ==
  \A r \in SendSlots :
    sends[r].pc = "done" /\ sends[r].kind = "handle" /\ AllFailed(sends[r].log) =>
      sends[r].nErr = 1 /\ sends[r].at = Len(sends[r].log)

\* C7: for a handle target the attempts are, in order, one new-chat attempt
\* per preferred service (iMessage then SMS, or the one requested), one
\* direct-buddy attempt per service in the same order, one generic attempt;
\* none follows a success, so at most 2k+1 are made for k services.
C7_Services(service) ==
  IF service = "imessage" THEN <<"iMessage">>
  ELSE IF service = "sms" THEN <<"SMS">>
  ELSE <<"iMessage", "SMS">>

C7_Slot(service, n) ==
  LET S == C7_Services(service)
      k == Len(S)
  IN IF n <= k THEN <<"newchat", S[n]>>
     ELSE IF n <= 2 * k THEN <<"buddy", S[n - k]>>
     ELSE <<"generic", "none">>

C7_AttemptOrder ==
  \A r \in SendSlots :
    sends[r].kind = "handle" =>
      LET log == sends[r].log
      IN /\ Len(log) <= 2 * Len(C7_Services(sends[r].service)) + 1
         /\ \A n \in 1..Len(log) :
              /\ <<log[n].strategy, log[n].svc>> = C7_Slot(sends[r].service, n)
              /\ n < Len(log) => ~log[n].ok
         /\ sends[r].pc = "osa" => AllFailed(log) \/ log = <<>>

\* C7's case: with no service requested, both new-chat attempts failed, the
\* direct-buddy attempt on iMessage succeeded and nothing followed it.
C7_Witness ==
  \E r \in SendSlots :
    /\ sends[r].pc = "done"
    /\ sends[r].kind = "handle"
    /\ sends[r].service = "auto"
    /\ Len(sends[r].log) = 3
    /\ sends[r].log[3].ok
    /\ sends[r].log[3].strategy = "buddy"

\* C8: if any attempt of a send succeeds, the request gets the success
\* result and no error response or error notification, however many earlier
\* attempts failed.
C8_SuccessSuppressesFailures ==
  \A r \in SendSlots :
    (\E n \in 1..Len(sends[r].log) : sends[r].log[n].ok) =>
      /\ sends[r].pc = "done"
      /\ sends[r].nOk = 1
      /\ sends[r].nErr = 0
      /\ \A k \in 1..Len(wrote) :
           /\ wrote[k].type # "error"
           /\ wrote[k].id = r => wrote[k].type = "result"

\* C8's case: no service requested, the new-chat attempt on iMessage failed,
\* the one on SMS succeeded, and the result has just been written.
C8_Witness ==
  \E r \in SendSlots :
    /\ Len(sends[r].log) = 2
    /\ ~sends[r].log[1].ok /\ sends[r].log[1].svc = "iMessage"
    /\ sends[r].log[2].ok /\ sends[r].log[2].svc = "SMS"
    /\ sends[r].service = "auto"
    /\ wrote = <<Line("result", r, "ok", 0)>>

(***************************************************************************)
(* Claims about the protocol front-end (checked under PollSpec).           *)
(***************************************************************************)
IsNotification(line) == line.type \in {"message", "error"}

\* C11: once the closing of the input stream or a SIGTERM / SIGINT has been
\* handled, the poll timer is stopped and no message or error notification
\* is written, even with a poll tick in flight at that moment.
C11_SilentAfterShutdown ==
  ~alive =>
    /\ timers = 0
    /\ ~pollTimer
    /\ \A k \in 1..Len(wrote) : ~IsNotification(wrote[k])

\* C11's case: the process has exited while a tick held rows with a message
\* never emitted and not in the seen-id set, which its continuation would
\* have written.
C11_Witness ==
  /\ ~alive
  /\ \E t \in InFlight :
       /\ t.pc = "rows"
       /\ \E i \in Range(t.rows) :
            RowKept(i, t.qAtt) /\ emitted[i] = 0 /\ ~AlreadyKnown(knownMessageIds, i)

\* C12: after any sequence of watch.subscribe and watch.unsubscribe requests
\* at most one poll timer is armed: exactly one if the most recent of them
\* was a subscribe, none if it was an unsubscribe; a subscribe with a timer
\* armed arms no second one.
C12_AtMostOneTimer ==
  /\ timers <= 1
  /\ req = Req(0, "watch.subscribe") => timers = 1
  /\ req = Req(0, "watch.unsubscribe") => timers = 0
  /\ alive => (subscribed <=> timers = 1)

\* C12's case: a subscribe has just been handled with the timer already
\* armed (startPolling polls at once when it arms one, and no tick was
\* started), after an earlier tick had run.
C12_Witness ==
  /\ req = Req(0, "watch.subscribe")
  /\ ticks = EmptyBag
  /\ timers = 1
  /\ lastMessageTime > 0

\* C13: a request without an id, whatever its method (send and
\* watch.subscribe included), writes nothing, starts no store query, staging
\* or osascript run, and leaves the subscription flag, the attachments flag,
\* the timer, the checkpoint and the seen-id set unchanged.
C13_NoIdIsIgnored ==
  [][HandledNoId(req') =>
       /\ wrote' = <<>>
       /\ UNCHANGED <<subscribed, includeAttachments, pollTimer, timers,
                      lastMessageTime, knownMessageIds, ticks, sends>>]_vars

\* C13's case: a watch.subscribe without id has just been handled while
\* unsubscribed, after an earlier subscription had moved the checkpoint; no
\* tick was started and the subscription is still off.
C13_Witness ==
  /\ req = ReqNoId("watch.subscribe")
  /\ alive
  /\ ~subscribed
  /\ timers = 0
  /\ ticks = EmptyBag
  /\ lastMessageTime > 0

(***************************************************************************)
(* Claims about target classification (checked under ClassifySpec and      *)
(* SendSpec).                                                              *)
(***************************************************************************)
\* Request r was addressed by chat_identifier and has reached osascript.
C14_Dispatched(r) == sends[r].field = "chat_identifier" /\ sends[r].log # <<>>

C14_Has(v, c) == \E i \in 1..Len(v) : v[i] = c

C14_PhoneLike(v) ==
  /\ v # <<>>
  /\ v[1] \in {"+", "5"}
  /\ \A i \in 2..Len(v) : v[i] \in {"5", " ", "-"}

C14_StartsWithChat(v) == v # <<>> /\ v[1] = "chat"

\* C14: a send addressed by chat_identifier is dispatched as a handle target
\* exactly when the value looks like a handle (contains "@" or is
\* phone-number-like) and neither contains ";" nor starts with "chat", and as
\* a chat target otherwise.
C14_HandleExactlyWhen ==
  \A r \in SendSlots :
    C14_Dispatched(r) =>
      LET v == sends[r].value
      IN sends[r].kind = "handle" <=>
           /\ C14_Has(v, "@") \/ C14_PhoneLike(TrimString(v))
           /\ ~C14_Has(v, ";")
           /\ ~C14_StartsWithChat(v)

\* C14 as amended: the same with every test made on the value with its
\* leading and trailing white space removed.
C14_HandleExactlyWhenTrimmed ==
  \A r \in SendSlots :
    C14_Dispatched(r) =>
      LET v == TrimString(sends[r].value)
      IN /\ sends[r].kind \in {"handle", "chat"}
         /\ sends[r].kind = "handle" <=>
              /\ C14_Has(v, "@") \/ C14_PhoneLike(v)
              /\ ~C14_Has(v, ";")
              /\ ~C14_StartsWithChat(v)

\* C14's case: the chat_identifier "+15551234567" went down the handle
\* ladder (its first attempt creates a chat with the buddy).
C14_Witness ==
  \E r \in SendSlots :
    /\ C14_Dispatched(r)
    /\ sends[r].value = Phone
    /\ sends[r].kind = "handle"
    /\ sends[r].log[1].strategy = "newchat"

\* Request r gave a numeric chat_id, its lookup returned a row, and the
\* request has reached osascript.
C15_LookedUp(r) ==
  /\ sends[r].field = "chat_id"
  /\ sends[r].mapped.row
  /\ sends[r].pc = "osa" \/ sends[r].log # <<>>

\* C15: for a send with a purely numeric chat_id, whenever the store lookup
\* returns a row, the target value handed to osascript is the looked-up GUID
\* or chat identifier and never the numeric id itself.
C15_LookupReplacesId ==
  \A r \in SendSlots :
    C15_LookedUp(r) =>
      /\ sends[r].value \in {sends[r].mapped.guid, sends[r].mapped.chat_identifier}
      /\ sends[r].value # RowId

\* C15 as amended: whenever the row's GUID looks like a chat id (contains ";"
\* or starts with "chat") or its chat identifier is not empty, the value
\* handed to osascript is that GUID, or failing that the chat identifier.
C15_GuidUsable(g) == C14_Has(g, ";") \/ C14_StartsWithChat(g)

C15_LookupReplacesIdWhenUsable ==
  \A r \in SendSlots :
    C15_LookedUp(r) =>
      LET g == sends[r].mapped.guid
          c == sends[r].mapped.chat_identifier
      IN /\ C15_GuidUsable(g) => sends[r].value = g
         /\ ~C15_GuidUsable(g) /\ c # <<>> => sends[r].value = c

\* C15's case: the row's GUID does not look like a chat id, its chat
\* identifier is a phone number, and the send went to that number as a
\* handle.
C15_Witness ==
  \E r \in SendSlots :
    /\ C15_LookedUp(r)
    /\ sends[r].mapped = LookupRow(<<"x">>, Phone)
    /\ sends[r].value = Phone
    /\ sends[r].kind = "handle"
    /\ sends[r].log # <<>>

(***************************************************************************)
(* Claims about the attachment resolver (checked under AttachSpec).        *)
(***************************************************************************)
\* C16: once a maybeConvertHeicToJpeg call has returned a converted path for
\* an attachment id, every call for that id that starts later (in a later
\* tick or on a duplicate row) returns the same path and has invoked no
\* transcoder.
C16_LaterCallsReuse ==
  \A c \in later : c.ret = OutPath(c.a) /\ c.runs = 0

\* C16's case: a call that started after a conversion of its attachment id
\* has returned, while the file at the attachment's path is still HEIC.
C16_Witness ==
  \E c \in later :
    /\ c.a \in converted
    /\ c.a \in 1..Len(attachment)
    /\ attachment[c.a].mime_type = "image/heic"

\* The latest step ended an attachment tick: its parse loop finished and its
\* emit loop ran.
AttachEmits ==
  \E t \in InFlight :
    /\ t.pc \in {"joined", "access", "sniff", "stat", "mkdir", "exec", "check"}
    /\ ticks' = DropTick(t)

\* The message notifications of identity m among the lines.
LinesOf(lines, m) == {k \in 1..Len(lines) : lines[k].type = "message" /\ lines[k].id = m}

\* C17: when all three transcoding strategies failed for a HEIC / HEIF
\* attachment, the tick's emit loop writes the notification of its message
\* (unless the identity is in the seen-id set already), and with attachments
\* subscribed the notification lists the attachment with its original path
\* and its original HEIC / HEIF MIME type.
C17_UntranscodedIsReported ==
  [][AttachEmits =>
       \A g \in resolved'.nulls :
         g[1] \notin Range(knownMessageIds) =>
           /\ LinesOf(wrote', g[1]) # {}
           /\ includeAttachments =>
                \A k \in LinesOf(wrote', g[1]) :
                  \E j \in 1..Len(wrote'[k].attachments) :
                    LET rec == wrote'[k].attachments[j]
                        row == attachment[g[2]]
                    IN /\ rec.attachment_id = g[2]
                       /\ rec.original_path = normalizeAttachmentPath(row.filename)
                       /\ rec.mime_type \in {"image/heic", "image/heif"}
                       /\ Trim(row.mime_type) # "" => rec.mime_type = Trim(row.mime_type)]_vars

\* C17's case: a notification was written that lists an attachment whose
\* three transcoders had all failed.
C17_Witness ==
  /\ resolved.nulls # {}
  /\ \E g \in resolved.nulls : \E k \in LinesOf(wrote, g[1]) :
       /\ includeAttachments
       /\ \E j \in 1..Len(wrote[k].attachments) :
            /\ wrote[k].attachments[j].attachment_id = g[2]
            /\ wrote[k].attachments[j].mime_type = "image/heic"

\* The attachment ids of a notification's attachments, in order.
AttachmentIds(line) == [j \in 1..Len(line.attachments) |-> line.attachments[j].attachment_id]

\* C18: the rows of a tick that share a message identity give one record:
\* the tick writes at most one notification per identity, exactly one for
\* the identity of a record that is not in the seen-id set yet, and with
\* attachments subscribed the notification's attachments are in
\* non-decreasing order of attachment id.
C18_OneNotificationInIdOrder ==
  [][AttachEmits =>
       \A m \in MsgIds :
         /\ Cardinality(LinesOf(wrote', m)) <= 1
         /\ (m \in resolved'.ids /\ m \notin Range(knownMessageIds))
              => Cardinality(LinesOf(wrote', m)) = 1
         /\ includeAttachments =>
              \A k \in LinesOf(wrote', m) :
                \A i, j \in 1..Len(wrote'[k].attachments) :
                  i < j => AttachmentIds(wrote'[k])[i] <= AttachmentIds(wrote'[k])[j]]_vars

\* C18's case: a notification with the attachments of two join rows of
\* different attachment ids.
C18_Witness ==
  \E k \in 1..Len(wrote) :
    /\ wrote[k].type = "message"
    /\ includeAttachments
    /\ resolved.ids # {}
    /\ \E i, j \in 1..Len(wrote[k].attachments) :
         wrote[k].attachments[i].attachment_id < wrote[k].attachments[j].attachment_id

\* C19: an attachment whose resolved path does not exist does not keep its
\* message from being emitted: the tick's emit loop writes the notification
\* (unless the identity is in the seen-id set already), and with attachments
\* subscribed the notification lists the attachment, flagged missing.
C19_MissingIsListed ==
  [][AttachEmits =>
       \A g \in resolved'.gone :
         g[1] \notin Range(knownMessageIds) =>
           /\ LinesOf(wrote', g[1]) # {}
           /\ includeAttachments =>
                \A k \in LinesOf(wrote', g[1]) :
                  \E j \in 1..Len(wrote'[k].attachments) :
                    /\ wrote'[k].attachments[j].attachment_id = g[2]
                    /\ wrote'[k].attachments[j].missing]_vars

\* C19's case: a notification was written that lists an attachment whose
\* path did not exist.
C19_Witness ==
  \E g \in resolved.gone : \E k \in LinesOf(wrote, g[1]) :
    /\ includeAttachments
    /\ \E j \in 1..Len(wrote[k].attachments) :
         /\ wrote[k].attachments[j].attachment_id = g[2]
         /\ wrote[k].attachments[j].missing

(***************************************************************************)
(* Claims about the send dispatcher's file tests (checked under SendSpec). *)
(***************************************************************************)
\* The file lies inside the outbound directory, lexically and after symlink
\* resolution, and is a symlink, not a regular file, or over the ceiling.
C20_Unfit(f) ==
  /\ f # "none"
  /\ FileInputs[f].lexInside /\ FileInputs[f].dirOk
  /\ FileInputs[f].realOk /\ FileInputs[f].realInside
  /\ FileInputs[f].symlink \/ ~FileInputs[f].regular \/ FileInputs[f].oversize

\* C20: with the escape hatch unset, a send request whose file lies inside
\* the outbound directory but is a symlink, is not a regular file or is
\* larger than the configured byte ceiling is answered with an error and with
\* nothing else, and no osascript attempt is made for it.
C20_UnfitFileIsRefused ==
  \A r \in SendSlots :
    ~allowArbitrary /\ C20_Unfit(sends[r].file) =>
      /\ sends[r].pc \in {"assert", "done"}
      /\ sends[r].pc = "done" => sends[r].nErr = 1
      /\ sends[r].nOk = 0
      /\ sends[r].log = <<>>

\* C20's case: a valid request for a handle whose file is a regular file
\* inside the outbound directory, over the ceiling, was answered with the
\* size refusal.
C20_Witness ==
  \E r \in SendSlots :
    /\ ~allowArbitrary
    /\ sends[r].file = "TooBig"
    /\ sends[r].kind = "handle"
    /\ sends[r].pc = "done"
    /\ sends[r].nErr = 1
    /\ sends[r].err = "Refusing to send attachment larger than"

(***************************************************************************)
(* Claims about the send handler (checked under SendSpec).                 *)
(***************************************************************************)
\* The request gave no target field, or blank text and no file.
C21_Invalid(snd) ==
  \/ snd.field = "none"
  \/ TrimText(snd.asked) = "" /\ snd.file = "none"

\* C21: a send request with no target field, or with blank text and no file,
\* is answered with exactly one error and with nothing else, in the step that
\* handles it; no store lookup, no staging copy and no osascript attempt is
\* made for it.
C21_InvalidIsRefusedAtOnce ==
  \A r \in SendSlots :
    sends[r].pc # "free" /\ C21_Invalid(sends[r]) =>
      /\ sends[r].pc = "done"
      /\ sends[r].nErr = 1
      /\ sends[r].nOk = 0
      /\ sends[r].mapped = NoLookup
      /\ sends[r].copies = 0
      /\ sends[r].log = <<>>

\* C21's case: a request with a target, text of white space only and no file
\* has just been answered with the missing-parameter error.
C21_Witness ==
  \E r \in SendSlots :
    /\ sends[r].field = "to"
    /\ sends[r].text = " "
    /\ sends[r].file = "none"
    /\ wrote = <<Line("rpcerror", r, "Missing required parameter: text or file", 0)>>

\* C22: for a send that gives a file and whose text is one of the media
\* placeholder strings, no osascript attempt of the ladder has a send-text
\* step: each sends the attachment only.
C22_PlaceholderIsNotSent ==
  \A r \in SendSlots :
    sends[r].file # "none" /\ isOpenclawMediaPlaceholderText(sends[r].asked) =>
      \A i \in 1..Len(sends[r].log) :
        ~sends[r].log[i].sendsText /\ sends[r].log[i].sendsFile

\* C22's case: a send with a file and a placeholder text in capitals and
\* white space made an attempt.
C22_Witness ==
  \E r \in SendSlots :
    /\ sends[r].file # "none"
    /\ sends[r].asked = " <MEDIA:Image> "
    /\ sends[r].log # <<>>

\* C23: a send to a chat target makes at most one osascript attempt, which
\* addresses the chat by its id with no service, and whose script sends the
\* text before the attachment; when that attempt fails, no further attempt
\* is made and its failure is the error of the response.
C23_ChatTargetOneAttempt ==
  \A r \in SendSlots :
    sends[r].kind = "chat" =>
      /\ Len(sends[r].log) <= 1
      /\ \A i \in 1..Len(sends[r].log) :
           /\ sends[r].log[i].strategy = "chat"
           /\ sends[r].log[i].svc = "none"
           /\ sends[r].log[i].steps \in {<<"text">>, <<"file">>, <<"text", "file">>}
           /\ ~sends[r].log[i].ok =>
                /\ sends[r].pc = "done"
                /\ sends[r].nErr = 1
                /\ sends[r].nOk = 0
                /\ sends[r].err = "osascript"
                /\ sends[r].at = 1

\* C23's case: the one attempt of a send of text and a file to a chat target
\* failed and the error response was written.
C23_Witness ==
  \E r \in SendSlots :
    /\ sends[r].kind = "chat"
    /\ Len(sends[r].log) = 1
    /\ sends[r].log[1].steps = <<"text", "file">>
    /\ ~sends[r].log[1].ok
    /\ sends[r].nErr = 1

(***************************************************************************)
(* Claims about the notification's fields (checked under GroupSpec).       *)
(***************************************************************************)
\* C24: in every message notification written, is_group is true exactly when
\* the chat_identifier of the message's row contains ';'.
C24_GroupIffSemicolon ==
  \A k \in 1..Len(wrote) :
    wrote[k].type = "message" =>
      (wrote[k].val <=> Includes(store[wrote[k].id].chat_identifier, ";"))

(***************************************************************************)
(* Claims about the checkpoint and the seen-id set.                        *)
(***************************************************************************)
\* C25: no step of the server lowers the in-memory checkpoint, whatever the
\* interleaving of overlapping ticks, failed queries, unsubscribe and
\* re-subscribe (checked under PollSpec).
C25_CheckpointNeverDecreases == [][lastMessageTime' >= lastMessageTime]_vars

\* C25's case: a tick has just emitted a record dated below the checkpoint
\* (another tick had moved the checkpoint past it), after an unsubscribe and
\* a re-subscribe or not.
C25_Witness ==
  \E k \in 1..Len(wrote) :
    /\ wrote[k].type = "message"
    /\ store[wrote[k].id].date < lastMessageTime

\* C26: an identity is in the seen-id set only after its notification has been
\* emitted, also when a write of the emit loop fails, so that a record whose
\* notification failed is still emitted by a later tick (checked under
\* WriteFailSpec).
C26_SeenOnlyAfterEmitted ==
  \A id \in Range(knownMessageIds) : emitted[id] > 0

\* The seen-id set after the emit loop of tick t, run in this state, has
\* processed the first k of its records.
C27_KnownAfter(t, k) ==
  TickResult(SubSeq(SortByDate(ById(t.rows, t.qAtt)), 1, k)).known

\* C27: the seen-id set never holds more than SeenCap (2000) identities, and
\* so after each record of an emit loop; when the insertion of a record's
\* identity takes it above SeenCap, the set after that record is exactly the
\* SeenKeep (1500) most recently inserted identities, the last of which is
\* the one just inserted; otherwise the insertion only appends (checked
\* under PollSpec).
C27_SeenSetIsBounded ==
  /\ Len(knownMessageIds) <= SeenCap
  /\ \A t \in InFlight :
       t.pc = "rows" =>
         LET records == SortByDate(ById(t.rows, t.qAtt))
         IN \A k \in 1..Len(records) :
              LET before == C27_KnownAfter(t, k - 1)
                  after  == C27_KnownAfter(t, k)
                  all    == Append(before, records[k])
              IN /\ Len(after) <= SeenCap
                 /\ records[k] \in Range(before) => after = before
                 /\ records[k] \notin Range(before) /\ Len(all) <= SeenCap => after = all
                 /\ records[k] \notin Range(before) /\ Len(all) > SeenCap =>
                      /\ Len(after) = SeenKeep
                      /\ \A i \in 1..SeenKeep : after[i] = all[Len(all) - SeenKeep + i]
                      /\ after[Len(after)] = records[k]

\* C27's case: the tick that just ended inserted an identity into a full set,
\* which was cut to SeenKeep identities ending with that one.
C27_Witness ==
  /\ evicted # {}
  /\ Len(knownMessageIds) = SeenKeep
  /\ wrote # <<>>
  /\ wrote[Len(wrote)].type = "message"
  /\ wrote[Len(wrote)].id = knownMessageIds[Len(knownMessageIds)]

\* No record has been processed since startup: the checkpoint is the one
\* startup left.
C28_AtStartup == knownMessageIds = <<>> /\ \A i \in MsgIds : emitted[i] = 0

\* C28 as stated: at startup the checkpoint is the persisted value when that
\* value is less than 24 hours old and is now - 30 minutes otherwise, and it
\* is not negative.
C28_StartupCheckpoint ==
  /\ lastMessageTime >= 0
  /\ C28_AtStartup =>
       lastMessageTime = IF saved.kind = "value" /\ nowAppleNs - saved.v < StaleS
                         THEN saved.v ELSE nowAppleNs - LookbackS

\* C28, amended: at startup the checkpoint is the persisted value when that
\* value is less than 24 hours old and earlier than now, and is
\* now - 30 minutes otherwise; a negative result is replaced by 0, so that it
\* is never negative (checked under StartupSpec).
C28_StartupCheckpointClamped ==
  /\ lastMessageTime >= 0
  /\ C28_AtStartup =>
       LET value == IF /\ saved.kind = "value"
                       /\ nowAppleNs - saved.v < StaleS
                       /\ saved.v < nowAppleNs
                    THEN saved.v ELSE nowAppleNs - LookbackS
       IN lastMessageTime = IF value < 0 THEN 0 ELSE value

\* C28's case: the server started on a state file whose value is less than
\* 24 hours old, restored it, and a tick is polling from it.
C28_Witness ==
  /\ C28_AtStartup
  /\ saved.kind = "value"
  /\ saved.v = nowAppleNs - StaleS + 1
  /\ lastMessageTime = saved.v
  /\ \E t \in InFlight : t.pc = "query" /\ t.qL = saved.v

\* C29: a step that changes the checkpoint or the seen-id set is the end of
\* a poll tick: it handles no request line and moves no send, whatever
\* request handlers are suspended around it (checked under FrameSpec).
C29_OnlyTicksChangeThem ==
  [][lastMessageTime' # lastMessageTime \/ knownMessageIds' # knownMessageIds =>
       /\ BagCardinality(ticks') < BagCardinality(ticks)
       /\ req' = NoReq
       /\ sends' = sends]_vars

\* C29's case: a send request has just been handled and is suspended at an
\* await, a tick is in flight, and an earlier tick has moved the checkpoint
\* and filled the seen-id set.
C29_Witness ==
  /\ req.hasId /\ req.method = "send"
  /\ \E r \in SendSlots : sends[r].pc \notin {"free", "done"}
  /\ ticks # EmptyBag
  /\ lastMessageTime > 0
  /\ knownMessageIds # <<>>

\* C30: from the response to watch.unsubscribe until the next watch.subscribe
\* is handled (subscribed is FALSE throughout), no step writes a message
\* notification, whatever tick was in flight (checked under PollSpec).
C30_SilentWhileUnsubscribed ==
  ~subscribed => \A k \in 1..Len(wrote) : wrote[k].type # "message"

(***************************************************************************)
(* Claims about ticks in flight, attachments and persistence.              *)
(***************************************************************************)
\* A row of tick t that passes the filters and whose id is not seen yet.
C31_Emittable(t) ==
  \E i \in Range(t.rows) :
    ~SkipReactions(i) /\ ~SkipNoSender(i) /\ i \notin Range(knownMessageIds)

\* C31: a tick parses its rows with the attachments setting its query was
\* built with, so a tick of the query without attachments whose result holds
\* a row that passes the filters and is not seen yet writes a notification
\* when it ends, whatever watch.subscribe was handled meanwhile (checked
\* under AttachSpec).
C31_TickKeepsItsSetting ==
  [][\A t \in InFlight :
       t.pc = "rows" /\ ticks' = DropTick(t) /\ C31_Emittable(t) => wrote' # <<>>]_vars

\* The attempts of a send whose send-text step ran.
C32_TextRuns(snd) ==
  {i \in 1..Len(snd.log) : snd.log[i].ran >= 1 /\ snd.log[i].steps[1] = "text"}

\* C32: across the attempts of one send request the send-text step runs at
\* most once: an attempt that failed after its text step is not followed by
\* an attempt that sends the text again (checked under PartialSpec).
C32_TextAtMostOnce ==
  \A r \in SendSlots : Cardinality(C32_TextRuns(sends[r])) <= 1

\* C33: a call of maybeConvertHeicToJpeg that returns the converted path of
\* an attachment finds there the finished output of a transcoder that
\* succeeded, never what a failed or running transcoder has written so far
\* (checked under ConvertSpec).
C33_ConvertedIsComplete ==
  [][\A a \in AttIds : a \in converted' /\ a \notin converted => a \notin incomplete]_vars

\* C34: with attachments subscribed, an emitted record lists each attachment
\* the store links to its message exactly once.  Checked here is the half of
\* it that needs no memory of the store at query time: no notification lists
\* an attachment id twice, whatever the join returned (under AttachSpec).
C34_EachAttachmentOnce ==
  \A k \in 1..Len(wrote) :
    wrote[k].type = "message" /\ "attachments" \in DOMAIN wrote[k] =>
      \A i, j \in 1..Len(wrote[k].attachments) :
        i # j => AttachmentIds(wrote[k])[i] # AttachmentIds(wrote[k])[j]

\* C35: once every saveState write issued has settled, the state file holds
\* the in-memory checkpoint (when the checkpoint has moved since startup, so
\* that a write was issued): a write of an older checkpoint does not land
\* after a write of a newer one (checked under SaveSpec).
C35_PersistedIsCurrent ==
  saving = {} /\ lastMessageTime # StartupCheckpoint(nowAppleNs, saved) =>
    stateFile = StateFile("value", lastMessageTime)

\* C36: a message identity that has been evicted from the seen-id set is not
\* emitted again by any later step, a slow tick that issued its query before
\* the eviction included (checked under PollSpec).
C36_EvictedNeverEmittedAgain ==
  [][\A i \in evicted : emitted'[i] = emitted[i]]_vars

\* C37: over a store that only adds messages whose dates are not lower than
\* those present, every message notification written carries a date that is
\* not lower than the date of any notification written before it, in the same
\* tick or in an earlier or overlapping one (checked under OrderSpec).
C37_WrittenInDateOrder ==
  [][\A k \in 1..Len(wrote') :
       wrote'[k].type = "message" =>
         /\ \A i \in MsgIds : emitted[i] > 0 => store[i].date <= store[wrote'[k].id].date
         /\ \A j \in 1..(k - 1) :
              wrote'[j].type = "message" => store[wrote'[j].id].date <= store[wrote'[k].id].date]_vars

\* C38: with the escape hatch unset, what the staging copy read at the
\* request's path is the file that assertSafeOutboundFilePath examined, and
\* not something put at the path after the check (checked under StageSpec).
C38_CopiedFileIsContained ==
  \A r \in SendSlots :
    ~allowArbitrary /\ sends[r].copies > 0 => sends[r].handed = "checked"

\* The precedence the claim states, and the fields of p that carry a value.
C39_Order == <<"chat_id", "chat_guid", "chat_identifier", "to">>

C39_Carried(p) == {i \in 1..4 : p[C39_Order[i]] # Null}

C39_First(p) == CHOOSE i \in C39_Carried(p) : \A j \in C39_Carried(p) : i <= j

\* The request that gives only the first carried field of p.
C39_Only(p) ==
  LET f == C39_Order[C39_First(p)]
  IN Params(IF f = "chat_id" THEN p.chat_id ELSE Null,
            IF f = "chat_guid" THEN p.chat_guid ELSE Null,
            IF f = "chat_identifier" THEN p.chat_identifier ELSE Null,
            IF f = "to" THEN p.to ELSE Null)

\* C39: a send request that carries more than one of chat_id, chat_guid,
\* chat_identifier and to is not refused for want of a target; the field used
\* is the first carried one in the order chat_id, chat_guid, chat_identifier,
\* to, with its value, and the handler goes on exactly as for the request that
\* gives that field alone (checked under TargetSpec).
C39_PrecedenceDecides ==
  [][\A r \in SendSlots :
       (/\ sends[r].pc = "free"
        /\ sends'[r].pc # "free"
        /\ Cardinality(C39_Carried(sends'[r].params)) > 1) =>
         LET p == sends'[r].params
             f == C39_Order[C39_First(p)]
         IN /\ sends'[r].field = f
            /\ sends'[r].value = p[f]
            /\ sends'[r].err # "Missing required parameter: to|chat_id|chat_guid|chat_identifier"
            /\ [sends'[r] EXCEPT !.params = NoTarget]
                 = [HandleSend(C39_Only(p), sends'[r].service, sends'[r].asked, sends'[r].file)
                      EXCEPT !.params = NoTarget]]_vars

\* C39's case: a request that gave chat_guid, chat_identifier and to was
\* dispatched on chat_guid and answered with a result.
C39_Witness ==
  \E r \in SendSlots :
    /\ sends[r].params = Params(Null, Guid, Phone, Phone)
    /\ sends[r].field = "chat_guid"
    /\ sends[r].value = Guid
    /\ sends[r].pc = "done"
    /\ sends[r].nOk = 1
====
